---- MODULE Spec2Model ----
(***************************************************************************)
(* Care-analytics scoring: the event classifier, the scoring engine, the   *)
(* batch score materializer (scripts/calculate_scores.py) and the backfill *)
(* driver (scripts/backfill_scores.py), over a transactional score store.  *)
(*                                                                         *)
(* Encodings: a text is a record [isNone, chars] whose chars is a sequence *)
(* of one-character strings; a date is its proleptic Gregorian ordinal     *)
(* (Python's date.toordinal()); a timestamp is ordinal * 24 + hour, so a   *)
(* difference of timestamps is a number of hours.                          *)
(***************************************************************************)
EXTENDS Integers, Sequences, FiniteSets, TLC

VARIABLES
    events,     \* fact_adl_event: the stored event rows, in heap order
    scores,     \* fact_resident_domain_score: the committed rows
    clock,      \* transactions begun so far (the value NOW() yields)
    pc,         \* per connection: position of its driver
    driver,     \* per connection: "calc" or "backfill"
    job,        \* per connection: the (end_date, period_days) runs still to do
    run,        \* per connection: the running calculate_period_scores call
    pending,    \* per connection: rows upserted by the open transaction
    result,     \* per connection: the dict last returned by calculate_period_scores
    totals,     \* per connection: the backfill driver's cumulative totals
    raised,     \* per connection: the exception that left the loop, or "none"
    hist,       \* per window (end_date, period_days): what its runs did so far
    row,        \* reconciliation check: the stored row handed to to_adl_events
    adl,        \* reconciliation check: the ADLEvent to_adl_events built from it
    call        \* engine check: a function of the engine, its arguments, its result

mainVars == <<events, scores, clock, pc, driver, job, run, pending, result,
              totals, raised, hist>>
recVars == <<row, adl, call>>
vars == <<events, scores, clock, pc, driver, job, run, pending, result,
          totals, raised, hist, row, adl, call>>

(***************************************************************************)
(* Text.                                                                   *)
(***************************************************************************)
None == [isNone |-> TRUE, chars |-> <<>>]
Text(s) == [isNone |-> FALSE, chars |-> s]

\* the words the keywords and the free texts of the model are made of, each
\* a sequence of its characters
Words ==
    [ sp |-> <<" ">>,
      None |-> <<"N", "o", "n", "e">>,
      Away |-> <<"A", "w", "a", "y">>,
      away |-> <<"a", "w", "a", "y">>,
      refused |-> <<"r", "e", "f", "u", "s", "e", "d">>,
      Refused |-> <<"R", "e", "f", "u", "s", "e", "d">>,
      declined |-> <<"d", "e", "c", "l", "i", "n", "e", "d">>,
      skipped |-> <<"s", "k", "i", "p", "p", "e", "d">>,
      didnt |-> <<"d", "i", "d", "n", "'", "t">>,
      did |-> <<"d", "i", "d">>,
      not |-> <<"n", "o", "t">>,
      want |-> <<"w", "a", "n", "t">>,
      on |-> <<"o", "n">>,
      leave |-> <<"l", "e", "a", "v", "e">>,
      out |-> <<"o", "u", "t">>,
      with |-> <<"w", "i", "t", "h">>,
      family |-> <<"f", "a", "m", "i", "l", "y">>,
      at |-> <<"a", "t">>,
      hospital |-> <<"h", "o", "s", "p", "i", "t", "a", "l">>,
      his |-> <<"h", "i", "s">>,
      her |-> <<"h", "e", "r">>,
      own |-> <<"o", "w", "n">>,
      independently |-> <<"i", "n", "d", "e", "p", "e", "n", "d", "e", "n", "t", "l", "y">>,
      dressed |-> <<"d", "r", "e", "s", "s", "e", "d">>,
      herself |-> <<"h", "e", "r", "s", "e", "l", "f">>,
      himself |-> <<"h", "i", "m", "s", "e", "l", "f">>,
      full |-> <<"f", "u", "l", "l">>,
      fully |-> <<"f", "u", "l", "l", "y">>,
      support |-> <<"s", "u", "p", "p", "o", "r", "t">>,
      assistance |-> <<"a", "s", "s", "i", "s", "t", "a", "n", "c", "e">>,
      assisted |-> <<"a", "s", "s", "i", "s", "t", "e", "d">>,
      some |-> <<"s", "o", "m", "e">>,
      prompting |-> <<"p", "r", "o", "m", "p", "t", "i", "n", "g">>,
      prompted |-> <<"p", "r", "o", "m", "p", "t", "e", "d">>,
      helped |-> <<"h", "e", "l", "p", "e", "d">>,
      wash |-> <<"w", "a", "s", "h">>,
      Resident |-> <<"R", "e", "s", "i", "d", "e", "n", "t">>,
      morning |-> <<"m", "o", "r", "n", "i", "n", "g">> ]

\* str.lower(), on the upper-case letters the texts of the model use
LowerChar(ch) ==
    CASE ch = "A" -> "a"
      [] ch = "N" -> "n"
      [] ch = "R" -> "r"
      [] OTHER -> ch

Lower(s) == [i \in 1..Len(s) |-> LowerChar(s[i])]

\* Python's `keyword in combined`
Contains(s, kw) ==
    \E i \in 1..(Len(s) - Len(kw) + 1) : SubSeq(s, i, i + Len(kw) - 1) = kw

AnyIn(s, kws) == \E kw \in kws : Contains(s, kw)

\* str.strip() leaves something: some character is not whitespace
StripNonEmpty(s) == \E i \in 1..Len(s) : s[i] # " "

\* str(x): the text itself, or the four letters of None
Str(t) == IF t.isNone THEN Words.None ELSE t.chars

\* Python truthiness of an optional string
Truthy(t) == ~t.isNone /\ Len(t.chars) > 0

(***************************************************************************)
(* Event classifier (src/scoring_engine.py).                               *)
(***************************************************************************)
INDEPENDENT == "Independent"
SOME_ASSISTANCE == "Some Assistance"
FULL_ASSISTANCE == "Full Assistance"
REFUSED == "Refused"
NOT_SPECIFIED == "Not Specified"
AssistanceLevel ==
    {INDEPENDENT, SOME_ASSISTANCE, FULL_ASSISTANCE, REFUSED, NOT_SPECIFIED}

away_keywords ==
    { Words.sp \o Words.away, Words.away \o Words.sp, Words.away \o <<".">>, Words.away \o <<",">>,
      Words.on \o Words.sp \o Words.leave,
      Words.out \o Words.sp \o Words.with \o Words.sp \o Words.family,
      Words.at \o Words.sp \o Words.hospital }

refusal_keywords ==
    { Words.refused, Words.declined, Words.didnt \o Words.sp \o Words.want,
      Words.did \o Words.sp \o Words.not \o Words.sp \o Words.want, Words.skipped }

independent_phrases ==
    { Words.on \o Words.sp \o Words.his \o Words.sp \o Words.own,
      Words.on \o Words.sp \o Words.her \o Words.sp \o Words.own,
      Words.independently, Words.dressed \o Words.sp \o Words.herself,
      Words.dressed \o Words.sp \o Words.himself }

full_phrases ==
    { Words.full \o Words.sp \o Words.support, Words.full \o Words.sp \o Words.assistance,
      Words.fully \o Words.sp \o Words.assisted }

partial_phrases ==
    { Words.with \o Words.sp \o Words.assistance, Words.some \o Words.sp \o Words.assistance,
      Words.prompting, Words.prompted, Words.helped }

parse_assistance_level_refusal_first(description, title) ==
    LET d == IF Truthy(description) THEN description.chars ELSE <<>>
        t == IF Truthy(title) THEN title.chars ELSE <<>>
        combined == Lower(d \o Words.sp \o t)
    IN  IF AnyIn(combined, refusal_keywords) THEN REFUSED
        ELSE IF AnyIn(combined, away_keywords) THEN NOT_SPECIFIED
        ELSE IF AnyIn(combined, independent_phrases) THEN INDEPENDENT
        ELSE IF AnyIn(combined, full_phrases) THEN FULL_ASSISTANCE
        ELSE IF AnyIn(combined, partial_phrases) THEN SOME_ASSISTANCE
        ELSE NOT_SPECIFIED

parse_assistance_level(description, title) ==
    LET d == IF Truthy(description) THEN description.chars ELSE <<>>
        t == IF Truthy(title) THEN title.chars ELSE <<>>
        combined == Lower(d \o Words.sp \o t)
    IN  IF AnyIn(combined, away_keywords) THEN NOT_SPECIFIED
        ELSE IF AnyIn(combined, refusal_keywords) THEN REFUSED
        ELSE IF AnyIn(combined, independent_phrases) THEN INDEPENDENT
        ELSE IF AnyIn(combined, full_phrases) THEN FULL_ASSISTANCE
        ELSE IF AnyIn(combined, partial_phrases) THEN SOME_ASSISTANCE
        ELSE NOT_SPECIFIED

is_refusal_ignores_away(description, title) ==
    AnyIn(Lower(Str(description) \o Words.sp \o Str(title)), refusal_keywords)

is_refusal(description, title) ==
    LET combined == Lower(Str(description) \o Words.sp \o Str(title))
    IN  IF AnyIn(combined, away_keywords) THEN FALSE
        ELSE AnyIn(combined, refusal_keywords)

(***************************************************************************)
(* Dates (datetime.date, DateHelper in src/dashboard_queries.py).          *)
(***************************************************************************)
\* year, month and day of a date ordinal (proleptic Gregorian calendar)
CivilOf(ord) ==
    LET z == ord + 305
        era == z \div 146097
        doe == z - era * 146097
        yoe == (doe - doe \div 1460 + doe \div 36524 - doe \div 146096) \div 365
        doy == doe - (365 * yoe + yoe \div 4 - yoe \div 100)
        mp == (5 * doy + 2) \div 153
        d == doy - (153 * mp + 2) \div 5 + 1
        m == IF mp < 10 THEN mp + 3 ELSE mp - 9
        y == yoe + era * 400 + (IF m <= 2 THEN 1 ELSE 0)
    IN  [year |-> y, month |-> m, day |-> d]

\* int(d.strftime('%Y%m%d'))
date_to_date_id(d) ==
    LET c == CivilOf(d) IN c.year * 10000 + c.month * 100 + c.day

build_event_window_off_by_one(end_date, period_days) ==
    LET start_date == end_date - period_days
    IN  [start_dt |-> start_date * 24,
         end_dt |-> end_date * 24 + 23,
         start_date_id |-> date_to_date_id(start_date),
         end_date_id |-> date_to_date_id(end_date)]

build_event_window_to_midnight(end_date, period_days) ==
    LET start_date == end_date - (period_days - 1)
    IN  [start_dt |-> start_date * 24,
         end_dt |-> end_date * 24,
         start_date_id |-> date_to_date_id(start_date),
         end_date_id |-> date_to_date_id(end_date)]

\* datetime.combine(start_date, time.min), datetime.combine(end_date, time.max)
build_event_window(end_date, period_days) ==
    LET start_date == end_date - (period_days - 1)
    IN  [start_dt |-> start_date * 24,
         end_dt |-> end_date * 24 + 23,
         start_date_id |-> date_to_date_id(start_date),
         end_date_id |-> date_to_date_id(end_date)]

(***************************************************************************)
(* Scoring engine (src/scoring_engine.py).                                 *)
(***************************************************************************)
GREEN == "GREEN"
AMBER == "AMBER"
RED == "RED"
NOT_APPLICABLE == "N/A"

REFUSAL_THRESHOLD_AMBER == 2
REFUSAL_THRESHOLD_RED == 4
REFUSAL_BASELINE_DAYS == 7

\* expected_per_day is kept in halves of an event per day (0.5 -> 1)
DomainConfig(name, expected_halves, amber, red) ==
    [domain_name |-> name, expected_per_day_x2 |-> expected_halves,
     gap_threshold_amber |-> amber, gap_threshold_red |-> red]

ADL_DOMAINS ==
    [n \in {"Washing/Bathing", "Oral Care", "Dressing/Clothing", "Toileting",
            "Grooming"} |->
        CASE n = "Washing/Bathing" -> DomainConfig(n, 2, 24, 48)
          [] n = "Oral Care" -> DomainConfig(n, 4, 16, 24)
          [] n = "Dressing/Clothing" -> DomainConfig(n, 2, 24, 48)
          [] n = "Toileting" -> DomainConfig(n, 8, 12, 24)
          [] n = "Grooming" -> DomainConfig(n, 1, 48, 96)]

\* the value standing for Python's None where a number is expected
NoValue == -1

ValueError == [error |-> "ValueError"]

ScoreComponent(name, pts, descr) ==
    [error |-> "none", component_name |-> name, points |-> pts,
     description |-> descr]

calculate_refusal_score_by_count(refusal_count, period_days) ==
    IF period_days <= 0 THEN ValueError
    ELSE IF refusal_count >= REFUSAL_THRESHOLD_RED
        THEN ScoreComponent("refusal_score", 3, "RED")
    ELSE IF refusal_count >= REFUSAL_THRESHOLD_AMBER
        THEN ScoreComponent("refusal_score", 2, "AMBER")
    ELSE ScoreComponent("refusal_score", 0, "No refusals")

\* refusal_count / period_days >= k / 7: the float quotients compare as the
\* exact fractions do for every period below 2^50 days
calculate_refusal_score(refusal_count, period_days) ==
    IF period_days <= 0 THEN ValueError
    ELSE IF refusal_count * REFUSAL_BASELINE_DAYS
                >= REFUSAL_THRESHOLD_RED * period_days
        THEN ScoreComponent("refusal_score", 3, "RED")
    ELSE IF refusal_count * REFUSAL_BASELINE_DAYS
                >= REFUSAL_THRESHOLD_AMBER * period_days
        THEN ScoreComponent("refusal_score", 2, "AMBER")
    ELSE IF refusal_count > 0
        THEN ScoreComponent("refusal_score", 0, "below threshold")
    ELSE ScoreComponent("refusal_score", 0, "No refusals")

calculate_gap_score_inclusive(max_gap_hours, domain_config) ==
    IF max_gap_hours = NoValue
        THEN ScoreComponent("gap_score", 0, "Insufficient data for gap analysis")
    ELSE IF max_gap_hours >= domain_config.gap_threshold_red
        THEN ScoreComponent("gap_score", 3, "RED")
    ELSE IF max_gap_hours >= domain_config.gap_threshold_amber
        THEN ScoreComponent("gap_score", 2, "AMBER")
    ELSE ScoreComponent("gap_score", 0, "within threshold")

calculate_gap_score_graded(max_gap_hours, domain_config) ==
    IF max_gap_hours = NoValue
        THEN ScoreComponent("gap_score", 0, "Insufficient data for gap analysis")
    ELSE IF max_gap_hours > domain_config.gap_threshold_red
        THEN ScoreComponent("gap_score", 3, "RED")
    ELSE IF max_gap_hours > domain_config.gap_threshold_amber
        THEN ScoreComponent("gap_score", 1, "AMBER")
    ELSE ScoreComponent("gap_score", 0, "within threshold")

calculate_gap_score(max_gap_hours, domain_config) ==
    IF max_gap_hours = NoValue
        THEN ScoreComponent("gap_score", 0, "Insufficient data for gap analysis")
    ELSE IF max_gap_hours > domain_config.gap_threshold_red
        THEN ScoreComponent("gap_score", 3, "RED")
    ELSE IF max_gap_hours > domain_config.gap_threshold_amber
        THEN ScoreComponent("gap_score", 2, "AMBER")
    ELSE ScoreComponent("gap_score", 0, "within threshold")

\* sorted(events, key=lambda e: e.event_timestamp): a stable sort
RECURSIVE InsertByTs(_, _)
InsertByTs(sorted, e) ==
    IF sorted = <<>> THEN <<e>>
    ELSE IF sorted[Len(sorted)].event_timestamp <= e.event_timestamp
        THEN Append(sorted, e)
    ELSE Append(InsertByTs(SubSeq(sorted, 1, Len(sorted) - 1), e),
                sorted[Len(sorted)])

RECURSIVE SortByTs(_)
SortByTs(evs) ==
    IF evs = <<>> THEN <<>>
    ELSE InsertByTs(SortByTs(SubSeq(evs, 1, Len(evs) - 1)), evs[Len(evs)])

assistance_scores(level) ==
    CASE level = INDEPENDENT -> 0
      [] level = SOME_ASSISTANCE -> 1
      [] level = FULL_ASSISTANCE -> 2
      [] OTHER -> NoValue

RECURSIVE SumSeq(_)
SumSeq(s) == IF s = <<>> THEN 0 ELSE s[1] + SumSeq(Tail(s))

\* the numeric scores of the events in the given order
NumericScores(evs) ==
    SelectSeq([i \in 1..Len(evs) |-> assistance_scores(evs[i].assistance_level)],
              LAMBDA x : x # NoValue)

calculate_dependency_score_no_recheck(evs) ==
    LET numeric_scores == NumericScores(SortByTs(evs))
        n == Len(numeric_scores)
    IN  IF Len(evs) < 6 \/ n < 3
            THEN ScoreComponent("dependency_score", 0,
                                "Insufficient events for trend analysis")
        ELSE IF 2 * SumSeq(SubSeq(numeric_scores, n - 2, n))
                    > 2 * SumSeq(SubSeq(numeric_scores, 1, 3)) + 3
            THEN ScoreComponent("dependency_score", 2,
                                "Increasing dependency trend")
        ELSE ScoreComponent("dependency_score", 0,
                            "No significant dependency change")

calculate_dependency_score_unsorted(evs) ==
    LET numeric_scores == NumericScores(evs)
        n == Len(numeric_scores)
    IN  IF Len(evs) < 6 \/ n < 6
            THEN ScoreComponent("dependency_score", 0,
                                "Insufficient events for trend analysis")
        ELSE IF 2 * SumSeq(SubSeq(numeric_scores, n - 2, n))
                    > 2 * SumSeq(SubSeq(numeric_scores, 1, 3)) + 3
            THEN ScoreComponent("dependency_score", 2,
                                "Increasing dependency trend")
        ELSE ScoreComponent("dependency_score", 0,
                            "No significant dependency change")

calculate_dependency_score(evs) ==
    IF Len(evs) < 6
        THEN ScoreComponent("dependency_score", 0,
                            "Insufficient events for trend analysis")
    ELSE
        LET sorted_events == SortByTs(evs)
            numeric_scores == NumericScores(sorted_events)
            n == Len(numeric_scores)
        IN  IF n < 6
                THEN ScoreComponent("dependency_score", 0,
                         "Insufficient valid assistance levels for trend")
            \* recent_avg > baseline_avg + 0.5, both sums over 3 scores
            ELSE IF 2 * SumSeq(SubSeq(numeric_scores, n - 2, n))
                        > 2 * SumSeq(SubSeq(numeric_scores, 1, 3)) + 3
                THEN ScoreComponent("dependency_score", 2,
                                    "Increasing dependency trend")
            ELSE ScoreComponent("dependency_score", 0,
                                "No significant dependency change")

RefusalCount(evs) == Cardinality({i \in 1..Len(evs) : evs[i].is_refusal})

RECURSIVE MaxOf(_)
MaxOf(s) ==
    IF Len(s) = 1 THEN s[1]
    ELSE LET m == MaxOf(Tail(s)) IN IF s[1] >= m THEN s[1] ELSE m

MaxGapHours_unsorted(evs) ==
    LET gaps == [i \in 1..(Len(evs) - 1) |->
                    evs[i + 1].event_timestamp - evs[i].event_timestamp]
    IN  IF gaps = <<>> THEN NoValue ELSE MaxOf(gaps)

\* max(gaps) if gaps else None, over the consecutive gaps of the sorted events
MaxGapHours(evs) ==
    LET sorted_events == SortByTs(evs)
        gaps == [i \in 1..(Len(sorted_events) - 1) |->
                    sorted_events[i + 1].event_timestamp
                        - sorted_events[i].event_timestamp]
    IN  IF gaps = <<>> THEN NoValue ELSE MaxOf(gaps)

RiskOfPoints(total_points) ==
    IF total_points >= 5 THEN RED
    ELSE IF total_points >= 2 THEN AMBER
    ELSE GREEN

calculate_care_risk_score_drops_dependency(evs, domain_config, period_days) ==
    LET refusal_score == calculate_refusal_score(RefusalCount(evs), period_days)
        gap_score == calculate_gap_score(MaxGapHours(evs), domain_config)
        dependency_score == calculate_dependency_score(evs)
    IN  IF refusal_score.error # "none" THEN ValueError
        ELSE LET total_points == refusal_score.points + gap_score.points
             IN  [error |-> "none",
                  risk_level |-> RiskOfPoints(total_points),
                  total_points |-> total_points,
                  components |-> <<refusal_score, gap_score, dependency_score>>]

calculate_care_risk_score(evs, domain_config, period_days) ==
    LET refusal_score == calculate_refusal_score(RefusalCount(evs), period_days)
        gap_score == calculate_gap_score(MaxGapHours(evs), domain_config)
        dependency_score == calculate_dependency_score(evs)
    IN  IF refusal_score.error # "none" THEN ValueError
        ELSE LET total_points == refusal_score.points + gap_score.points
                                    + dependency_score.points
             IN  [error |-> "none",
                  risk_level |-> RiskOfPoints(total_points),
                  total_points |-> total_points,
                  components |-> <<refusal_score, gap_score, dependency_score>>]

\* num / den >= k for a fraction of nonzero denominator
FractionAtLeast(num, den, k) ==
    IF den > 0 THEN num >= k * den ELSE num <= k * den

calculate_documentation_score_three_tiers(actual_entries, expected_per_day_x2, period_days) ==
    LET expected_x2 == expected_per_day_x2 * period_days
    IN  IF expected_x2 = 0
            THEN [risk_level |-> NOT_APPLICABLE, pct_num |-> 0, pct_den |-> 1,
                  actual_entries |-> actual_entries, expected_entries_x2 |-> 0]
        ELSE [risk_level |->
                  IF FractionAtLeast(actual_entries * 200, expected_x2, 60)
                      THEN GREEN
                  ELSE IF FractionAtLeast(actual_entries * 200, expected_x2, 40)
                      THEN AMBER
                  ELSE RED,
              pct_num |-> actual_entries * 200, pct_den |-> expected_x2,
              actual_entries |-> actual_entries,
              expected_entries_x2 |-> expected_x2]

\* compliance_percentage = pct_num / pct_den, kept as an exact fraction
calculate_documentation_score(actual_entries, expected_per_day_x2, period_days) ==
    LET expected_x2 == expected_per_day_x2 * period_days
    IN  IF expected_x2 = 0
            THEN [risk_level |-> NOT_APPLICABLE, pct_num |-> 0, pct_den |-> 1,
                  actual_entries |-> actual_entries, expected_entries_x2 |-> 0]
        ELSE [risk_level |->
                  IF FractionAtLeast(actual_entries * 200, expected_x2, 90)
                      THEN GREEN
                  ELSE IF FractionAtLeast(actual_entries * 200, expected_x2, 60)
                      THEN AMBER
                  ELSE RED,
              pct_num |-> actual_entries * 200, pct_den |-> expected_x2,
              actual_entries |-> actual_entries,
              expected_entries_x2 |-> expected_x2]

analyze_resident_domain_default_config(resident_id, domain_name, evs, period_days) ==
    LET domain_config ==
            IF domain_name \in DOMAIN ADL_DOMAINS THEN ADL_DOMAINS[domain_name]
            ELSE ADL_DOMAINS["Washing/Bathing"]
        care_risk == calculate_care_risk_score(evs, domain_config, period_days)
    IN  IF care_risk.error # "none" THEN ValueError
        ELSE [error |-> "none", resident_id |-> resident_id,
              domain_name |-> domain_name, period_days |-> period_days,
              care_risk_score |-> care_risk,
              documentation_score |-> calculate_documentation_score(
                  Len(evs), domain_config.expected_per_day_x2, period_days),
              total_events |-> Len(evs),
              refusal_count |-> RefusalCount(evs),
              max_gap_hours |-> MaxGapHours(evs)]

analyze_resident_domain_whole_entries(resident_id, domain_name, evs, period_days) ==
    IF domain_name \notin DOMAIN ADL_DOMAINS THEN ValueError
    ELSE
        LET domain_config == ADL_DOMAINS[domain_name]
            care_risk == calculate_care_risk_score(evs, domain_config, period_days)
            doc_score == calculate_documentation_score(
                             Len(evs),
                             2 * (domain_config.expected_per_day_x2 \div 2),
                             period_days)
        IN  IF care_risk.error # "none" THEN ValueError
            ELSE [error |-> "none",
                  resident_id |-> resident_id,
                  domain_name |-> domain_name,
                  period_days |-> period_days,
                  care_risk_score |-> care_risk,
                  documentation_score |-> doc_score,
                  total_events |-> Len(evs),
                  refusal_count |-> RefusalCount(evs),
                  max_gap_hours |-> MaxGapHours(evs),
                  assistance_distribution |->
                      [l \in {evs[i].assistance_level : i \in 1..Len(evs)} |->
                          Cardinality({i \in 1..Len(evs) :
                                          evs[i].assistance_level = l})]]

analyze_resident_domain(resident_id, domain_name, evs, period_days) ==
    IF domain_name \notin DOMAIN ADL_DOMAINS THEN ValueError
    ELSE
        LET domain_config == ADL_DOMAINS[domain_name]
            care_risk == calculate_care_risk_score(evs, domain_config, period_days)
            doc_score == calculate_documentation_score(
                             Len(evs), domain_config.expected_per_day_x2,
                             period_days)
        IN  IF care_risk.error # "none" THEN ValueError
            ELSE [error |-> "none",
                  resident_id |-> resident_id,
                  domain_name |-> domain_name,
                  period_days |-> period_days,
                  care_risk_score |-> care_risk,
                  documentation_score |-> doc_score,
                  total_events |-> Len(evs),
                  refusal_count |-> RefusalCount(evs),
                  max_gap_hours |-> MaxGapHours(evs),
                  assistance_distribution |->
                      [l \in {evs[i].assistance_level : i \in 1..Len(evs)} |->
                          Cardinality({i \in 1..Len(evs) :
                                          evs[i].assistance_level = l})]]

overall_risk_care_only(analysis) == analysis.care_risk_score.risk_level

overall_risk(analysis) ==
    IF analysis.care_risk_score.risk_level = RED
           \/ analysis.documentation_score.risk_level = RED THEN RED
    ELSE IF analysis.care_risk_score.risk_level = AMBER
           \/ analysis.documentation_score.risk_level = AMBER THEN AMBER
    ELSE GREEN

(***************************************************************************)
(* Reconciliation of stored rows (scripts/calculate_scores.py).            *)
(*                                                                         *)
(* A stored event row: assistance_level is the stored string ("" for NULL  *)
(* or empty), is_refusal is "t", "f" or "null".                            *)
(***************************************************************************)
has_text_context(description, title) ==
    \/ Truthy(description) /\ StripNonEmpty(Str(description))
    \/ Truthy(title) /\ StripNonEmpty(Str(title))

to_adl_event_trusts_stored(r) ==
    LET assistance_value ==
            IF r.assistance_level # "" THEN r.assistance_level ELSE NOT_SPECIFIED
    IN  [event_timestamp |-> r.event_timestamp,
         assistance_level |->
             IF assistance_value \in AssistanceLevel THEN assistance_value
             ELSE NOT_SPECIFIED,
         is_refusal |-> r.is_refusal = "t",
         event_title |-> r.event_title,
         event_description |-> r.event_description]

\* the body of the loop of to_adl_events, for one row
to_adl_event(r) ==
    LET description == r.event_description
        title == r.event_title
        effective_refusal ==
            IF has_text_context(description, title)
                THEN is_refusal(description, title)
                ELSE r.is_refusal = "t"
        assistance_value ==
            IF r.assistance_level # "" THEN r.assistance_level ELSE NOT_SPECIFIED
        assistance_level ==
            IF assistance_value \in AssistanceLevel THEN assistance_value
            ELSE NOT_SPECIFIED
    IN  [event_timestamp |-> r.event_timestamp,
         assistance_level |-> assistance_level,
         is_refusal |-> effective_refusal,
         event_title |-> title,
         event_description |-> description]

to_adl_events(rows) == [i \in 1..Len(rows) |-> to_adl_event(rows[i])]

(***************************************************************************)
(* The stores.                                                             *)
(***************************************************************************)
\* SELECT ... WHERE resident_id, domain_id, event_timestamp in
\* [start_dt, end_dt] ORDER BY event_timestamp ASC; rows of one timestamp
\* come back in heap order
fetch_events(tbl, resident_id, domain_id, start_dt, end_dt) ==
    SortByTs(SelectSeq(tbl, LAMBDA r :
        /\ r.resident_id = resident_id
        /\ r.domain_id = domain_id
        /\ r.event_timestamp >= start_dt
        /\ r.event_timestamp <= end_dt))

\* Python's round() of the fraction num / den to an integer, ties to even
RoundHalfEven(num, den) ==
    LET q == num \div den
        r == num % den
    IN  IF 2 * r > den THEN q + 1
        ELSE IF 2 * r < den THEN q
        ELSE IF q % 2 = 0 THEN q ELSE q + 1

ScoreRow_swapped_counts(resident_id, domain_id, start_date_id, end_date_id, analysis, now) ==
    [resident_id |-> resident_id,
     domain_id |-> domain_id,
     start_date_id |-> start_date_id,
     end_date_id |-> end_date_id,
     crs_level |-> analysis.care_risk_score.risk_level,
     crs_total |-> analysis.care_risk_score.total_points,
     crs_refusal_score |-> analysis.care_risk_score.components[1].points,
     crs_gap_score |-> analysis.care_risk_score.components[2].points,
     crs_dependency_score |-> analysis.care_risk_score.components[3].points,
     refusal_count |-> analysis.total_events,
     max_gap_hours |-> analysis.max_gap_hours,
     dependency_trend |-> NoValue,
     dcs_level |-> analysis.documentation_score.risk_level,
     dcs_percentage |-> RoundHalfEven(analysis.documentation_score.pct_num * 100,
                                      analysis.documentation_score.pct_den),
     actual_entries |-> analysis.refusal_count,
     expected_entries |-> analysis.documentation_score.expected_entries_x2 * 50,
     calculated_at |-> now]

\* the parameter tuple of upsert_score; dcs_percentage and expected_entries
\* are round(x, 2), kept in hundredths
ScoreRow(resident_id, domain_id, start_date_id, end_date_id, analysis, now) ==
    [resident_id |-> resident_id,
     domain_id |-> domain_id,
     start_date_id |-> start_date_id,
     end_date_id |-> end_date_id,
     crs_level |-> analysis.care_risk_score.risk_level,
     crs_total |-> analysis.care_risk_score.total_points,
     crs_refusal_score |-> analysis.care_risk_score.components[1].points,
     crs_gap_score |-> analysis.care_risk_score.components[2].points,
     crs_dependency_score |-> analysis.care_risk_score.components[3].points,
     refusal_count |-> analysis.refusal_count,
     max_gap_hours |-> analysis.max_gap_hours,
     dependency_trend |-> NoValue,
     dcs_level |-> analysis.documentation_score.risk_level,
     dcs_percentage |-> RoundHalfEven(analysis.documentation_score.pct_num * 100,
                                      analysis.documentation_score.pct_den),
     actual_entries |-> analysis.total_events,
     expected_entries |-> analysis.documentation_score.expected_entries_x2 * 50,
     calculated_at |-> now]

KeyOf(r) == <<r.resident_id, r.domain_id, r.start_date_id, r.end_date_id>>

\* a row without its calculated_at marker
ScoreFields(r) == [f \in (DOMAIN r) \ {"calculated_at"} |-> r[f]]

upsert_score_append(tbl, new) == Append(tbl, new)

upsert_score_accumulate(tbl, new) ==
    IF \E i \in 1..Len(tbl) : KeyOf(tbl[i]) = KeyOf(new)
        THEN [i \in 1..Len(tbl) |->
                 IF KeyOf(tbl[i]) = KeyOf(new)
                     THEN [new EXCEPT !.actual_entries =
                                          tbl[i].actual_entries + new.actual_entries]
                     ELSE tbl[i]]
        ELSE Append(tbl, new)

upsert_score_keeps_total(tbl, new) ==
    IF \E i \in 1..Len(tbl) : KeyOf(tbl[i]) = KeyOf(new)
        THEN [i \in 1..Len(tbl) |->
                 IF KeyOf(tbl[i]) = KeyOf(new)
                     THEN [new EXCEPT !.crs_total = tbl[i].crs_total]
                     ELSE tbl[i]]
        ELSE Append(tbl, new)

upsert_score_resident_key(tbl, new) ==
    LET same(r) == /\ r.resident_id = new.resident_id
                   /\ r.start_date_id = new.start_date_id
                   /\ r.end_date_id = new.end_date_id
    IN  IF \E i \in 1..Len(tbl) : same(tbl[i])
            THEN [i \in 1..Len(tbl) |->
                     IF same(tbl[i])
                         THEN [new EXCEPT !.domain_id = tbl[i].domain_id]
                         ELSE tbl[i]]
            ELSE Append(tbl, new)

\* INSERT ... ON CONFLICT (resident_id, domain_id, start_date_id, end_date_id)
\* DO UPDATE SET <every score field> = EXCLUDED.<field>, calculated_at = NOW()
upsert_score(tbl, new) ==
    IF \E i \in 1..Len(tbl) : KeyOf(tbl[i]) = KeyOf(new)
        THEN [i \in 1..Len(tbl) |->
                 IF KeyOf(tbl[i]) = KeyOf(new)
                     THEN [tbl[i] EXCEPT
                              !.crs_level = new.crs_level,
                              !.crs_total = new.crs_total,
                              !.crs_refusal_score = new.crs_refusal_score,
                              !.crs_gap_score = new.crs_gap_score,
                              !.crs_dependency_score = new.crs_dependency_score,
                              !.refusal_count = new.refusal_count,
                              !.max_gap_hours = new.max_gap_hours,
                              !.dependency_trend = new.dependency_trend,
                              !.dcs_level = new.dcs_level,
                              !.dcs_percentage = new.dcs_percentage,
                              !.actual_entries = new.actual_entries,
                              !.expected_entries = new.expected_entries,
                              !.calculated_at = new.calculated_at]
                     ELSE tbl[i]]
        ELSE Append(tbl, new)

\* conn.commit(): the upserts of the transaction become visible together
RECURSIVE ApplyPending(_, _)
ApplyPending(tbl, pend) ==
    IF pend = <<>> THEN tbl
    ELSE ApplyPending(upsert_score(tbl, Head(pend)), Tail(pend))

CloseConn_commits(tbl, pend) == ApplyPending(tbl, pend)

\* conn.close() (or conn.rollback()) with a transaction open: its writes are
\* discarded
CloseConn(tbl, pend) == tbl

(***************************************************************************)
(* Bounds and inputs of the model.                                         *)
(***************************************************************************)
MaxEvents == 2      \* rows fact_adl_event may hold
MaxRuns == 2        \* calculate_period_scores calls begun, over all connections

Conns == {"A", "B"}

\* 2026-02-28 and 2026-03-01
SnapshotDates == {739675, 739676}

\* what parse_periods returns: sorted, distinct, positive
PeriodLists == {<<1>>, <<2>>, <<1, 2>>}
Periods == {1, 2}

\* dim_resident JOIN dim_client, active ones, ORDER BY resident_name
ActiveResidents ==
    << [resident_id |-> 1, resident_name |-> "Ann"],
       [resident_id |-> 2, resident_name |-> "Bob"] >>

\* dim_domain ORDER BY domain_name; "Mobility" is a directory entry the
\* scoring engine has no configuration for
DimDomain ==
    << [domain_id |-> 2, domain_name |-> "Mobility"],
       [domain_id |-> 1, domain_name |-> "Oral Care"] >>

NumPairs == Len(ActiveResidents) * Len(DimDomain)

\* the rows other processes may add to fact_adl_event: Ann's oral care on
\* the first morning and the second evening (36 hours apart), a second row
\* of that evening's timestamp, and rows of Bob in both domains
EventRow(r, d, day, h, level, ref, descr) ==
    [resident_id |-> r, domain_id |-> d, event_timestamp |-> day * 24 + h,
     assistance_level |-> level, is_refusal |-> ref,
     event_title |-> None, event_description |-> descr]

ImportRows ==
    { EventRow(1, 1, 739675, 8, SOME_ASSISTANCE, "f", Text(Words.helped)),
      EventRow(1, 1, 739676, 20, REFUSED, "t", Text(Words.refused)),
      EventRow(1, 1, 739676, 20, SOME_ASSISTANCE, "f", Text(Words.helped)),
      EventRow(2, 1, 739676, 8, SOME_ASSISTANCE, "f", Text(Words.helped)),
      EventRow(2, 2, 739676, 8, SOME_ASSISTANCE, "f", Text(Words.helped)) }

(***************************************************************************)
(* calculate_period_scores, one connection's call.                         *)
(***************************************************************************)
NoRun ==
    [end_date |-> 0, period_days |-> 0, start_dt |-> 0, end_dt |-> 0,
     start_date_id |-> 0, end_date_id |-> 0, now |-> 0, idx |-> 0,
     processed |-> 0, written |-> 0, skipped |-> 0, fetched |-> <<>>]

NoResult ==
    [valid |-> FALSE, period_days |-> 0, start_date_id |-> 0, end_date_id |-> 0,
     residents |-> 0, domains |-> 0, processed |-> 0, written |-> 0,
     skipped |-> 0]

NoTotals == [processed |-> 0, written |-> 0, skipped |-> 0, printed |-> FALSE]

\* lines 232-239: cursor, directories, window, counters
NewRun(end_date, period_days, now) ==
    LET w == build_event_window(end_date, period_days)
    IN  [end_date |-> end_date, period_days |-> period_days,
         start_dt |-> w.start_dt, end_dt |-> w.end_dt,
         start_date_id |-> w.start_date_id, end_date_id |-> w.end_date_id,
         now |-> now, idx |-> 0, processed |-> 0, written |-> 0,
         skipped |-> 0, fetched |-> <<>>]

ResidentAt(k) == ActiveResidents[(k \div Len(DimDomain)) + 1]
DomainAt(k) == DimDomain[(k % Len(DimDomain)) + 1]

process_pair_writes_empty(rn, pend, tbl) ==
    LET res == ResidentAt(rn.idx)
        dom == DomainAt(rn.idx)
        rows == fetch_events(tbl, res.resident_id, dom.domain_id,
                             rn.start_dt, rn.end_dt)
        counted == [rn EXCEPT !.processed = @ + 1,
                              !.fetched = Append(@, rows)]
        analysis == analyze_resident_domain(res.resident_id, dom.domain_name,
                                            to_adl_events(rows), rn.period_days)
    IN  IF rows = <<>> /\ analysis.error # "none"
            THEN [run |-> [counted EXCEPT !.idx = @ + 1, !.skipped = @ + 1],
                  pending |-> pend, raised |-> "none"]
        ELSE IF analysis.error # "none"
            THEN [run |-> counted, pending |-> pend, raised |-> "ValueError"]
        ELSE [run |-> [counted EXCEPT !.idx = @ + 1, !.written = @ + 1],
              pending |-> Append(pend,
                  ScoreRow(res.resident_id, dom.domain_id, rn.start_date_id,
                           rn.end_date_id, analysis, rn.now)),
              raised |-> "none"]

process_pair_miscounts(rn, pend, tbl) ==
    LET res == ResidentAt(rn.idx)
        dom == DomainAt(rn.idx)
        rows == fetch_events(tbl, res.resident_id, dom.domain_id,
                             rn.start_dt, rn.end_dt)
        counted == [rn EXCEPT !.processed = @ + 1,
                              !.fetched = Append(@, rows)]
        analysis == analyze_resident_domain(res.resident_id, dom.domain_name,
                                            to_adl_events(rows), rn.period_days)
    IN  IF rows = <<>>
            THEN [run |-> [counted EXCEPT !.idx = @ + 1],
                  pending |-> pend, raised |-> "none"]
        ELSE IF analysis.error # "none"
            THEN [run |-> counted, pending |-> pend, raised |-> "ValueError"]
        ELSE [run |-> [counted EXCEPT !.idx = @ + 1, !.written = @ + 1],
              pending |-> Append(pend,
                  ScoreRow(res.resident_id, dom.domain_id, rn.start_date_id,
                           rn.end_date_id, analysis, rn.now)),
              raised |-> "none"]

\* lines 243-257, the body of the loop for one pair: the run, the
\* transaction's rows and the exception raised, if any
process_pair_of(res, dom, rn, pend, tbl) ==
    LET rows == fetch_events(tbl, res.resident_id, dom.domain_id,
                             rn.start_dt, rn.end_dt)
        counted == [rn EXCEPT !.processed = @ + 1,
                              !.fetched = Append(@, rows)]
        analysis == analyze_resident_domain(res.resident_id, dom.domain_name,
                                            to_adl_events(rows), rn.period_days)
    IN  IF rows = <<>>
            THEN [run |-> [counted EXCEPT !.idx = @ + 1, !.skipped = @ + 1],
                  pending |-> pend, raised |-> "none"]
        ELSE IF analysis.error # "none"
            THEN [run |-> counted, pending |-> pend, raised |-> "ValueError"]
        ELSE [run |-> [counted EXCEPT !.idx = @ + 1, !.written = @ + 1],
              pending |-> Append(pend,
                  ScoreRow(res.resident_id, dom.domain_id, rn.start_date_id,
                           rn.end_date_id, analysis, rn.now)),
              raised |-> "none"]

\* the pair at rn.idx of the directories as the queries return them
process_pair(rn, pend, tbl) ==
    process_pair_of(ResidentAt(rn.idx), DomainAt(rn.idx), rn, pend, tbl)

\* lines 241-257 for any resident and domain list, from the pair at rn.idx
\* on: the loop runs to its end or to the first exception
RECURSIVE materialize_pairs(_, _, _, _, _)
materialize_pairs(residents, domains, rn, pend, tbl) ==
    IF rn.idx >= Len(residents) * Len(domains)
        THEN [run |-> rn, pending |-> pend, raised |-> "none"]
    ELSE LET out == process_pair_of(
                        residents[(rn.idx \div Len(domains)) + 1],
                        domains[(rn.idx % Len(domains)) + 1], rn, pend, tbl)
         IN  IF out.raised # "none" THEN out
             ELSE materialize_pairs(residents, domains, out.run, out.pending,
                                    tbl)

\* lines 262-271
ResultOf(rn) ==
    [valid |-> TRUE, period_days |-> rn.period_days,
     start_date_id |-> rn.start_date_id, end_date_id |-> rn.end_date_id,
     residents |-> Len(ActiveResidents), domains |-> Len(DimDomain),
     processed |-> rn.processed, written |-> rn.written,
     skipped |-> rn.skipped]

\* the rows of one window, without their calculated_at markers
WindowRows(tbl, start_date_id, end_date_id) ==
    LET rows == SelectSeq(tbl, LAMBDA r : /\ r.start_date_id = start_date_id
                                          /\ r.end_date_id = end_date_id)
    IN  [i \in 1..Len(rows) |-> ScoreFields(rows[i])]

\* another open transaction holds the row lock of one of these rows' keys
Locked(c, pend) ==
    \E d \in Conns \ {c} : \E i \in 1..Len(pend), j \in 1..Len(pending[d]) :
        KeyOf(pend[i]) = KeyOf(pending[d][j])

\* backfill_scores.iter_dates x periods
RECURSIVE BackfillJob(_, _, _)
BackfillJob(start_date, end_date, periods) ==
    IF start_date > end_date THEN <<>>
    ELSE [i \in 1..Len(periods) |-> <<start_date, periods[i]>>]
             \o BackfillJob(start_date + 1, end_date, periods)

(***************************************************************************)
(* Actions.                                                                *)
(***************************************************************************)
\* another process commits one more event row
ImportEvent(r) ==
    /\ Len(events) < MaxEvents
    /\ events' = Append(events, r)
    /\ UNCHANGED <<scores, clock, pc, driver, job, run, pending, result,
                   totals, raised, hist, row, adl, call>>

StartDriver(c, kind, runs) ==
    /\ pc[c] \in {"idle", "done", "failed"}
    /\ pc' = [pc EXCEPT ![c] = "driver"]
    /\ driver' = [driver EXCEPT ![c] = kind]
    /\ job' = [job EXCEPT ![c] = runs]
    /\ run' = [run EXCEPT ![c] = NoRun]
    /\ result' = [result EXCEPT ![c] = NoResult]
    /\ totals' = [totals EXCEPT ![c] = NoTotals]
    /\ raised' = [raised EXCEPT ![c] = "none"]
    /\ UNCHANGED <<events, scores, clock, pending, hist, row, adl, call>>

\* calculate_scores.main: one end date, every period
StartCalc(c, end_date, periods) ==
    StartDriver(c, "calc", [i \in 1..Len(periods) |-> <<end_date, periods[i]>>])

\* backfill_scores.main: every day of [start_date, end_date], every period
StartBackfill(c, start_date, end_date, periods) ==
    /\ start_date <= end_date
    /\ StartDriver(c, "backfill", BackfillJob(start_date, end_date, periods))

\* the driver calls calculate_period_scores for its next (date, period);
\* cap bounds the calls begun over all connections
BeginRunWithin(c, cap) ==
    /\ pc[c] = "driver"
    /\ job[c] # <<>>
    /\ clock < cap
    /\ clock' = clock + 1
    /\ run' = [run EXCEPT ![c] = NewRun(Head(job[c])[1], Head(job[c])[2], clock + 1)]
    /\ job' = [job EXCEPT ![c] = Tail(@)]
    /\ pc' = [pc EXCEPT ![c] = "loop"]
    /\ UNCHANGED <<events, scores, driver, pending, result, totals, raised,
                   hist, row, adl, call>>

BeginRun(c) == BeginRunWithin(c, MaxRuns)

\* an exception leaves calculate_period_scores: no handler in the loop, the
\* driver's finally closes the connection
Abort(c, rn, exc) ==
    /\ run' = [run EXCEPT ![c] = rn]
    /\ raised' = [raised EXCEPT ![c] = exc]
    /\ pc' = [pc EXCEPT ![c] = "failed"]
    /\ scores' = CloseConn(scores, pending[c])
    /\ pending' = [pending EXCEPT ![c] = <<>>]
    /\ hist' = [hist EXCEPT ![<<rn.end_date, rn.period_days>>].aborted =
                   @ \/ pending[c] # <<>>]
    /\ UNCHANGED <<events, clock, driver, job, result, totals, row, adl, call>>

\* the outcome of one iteration reaches the run and its transaction
PairStep(c, out) ==
    /\ ~Locked(c, out.pending)
    /\ IF out.raised = "none"
          THEN /\ run' = [run EXCEPT ![c] = out.run]
               /\ pending' = [pending EXCEPT ![c] = out.pending]
               /\ UNCHANGED <<events, scores, clock, pc, driver, job,
                              result, totals, raised, hist, row, adl, call>>
          ELSE Abort(c, out.run, out.raised)

\* one iteration of the loop over residents x domains
ProcessPair(c) ==
    /\ pc[c] = "loop"
    /\ run[c].idx < NumPairs
    /\ PairStep(c, process_pair(run[c], pending[c], events))

\* the fetch or the upsert of the current pair fails in the store
StorageFailure(c) ==
    /\ pc[c] = "loop"
    /\ run[c].idx < NumPairs
    /\ Abort(c, [run[c] EXCEPT !.processed = @ + 1], "StorageError")

\* lines 259-271 and the driver's bookkeeping of the returned dict
Commit(c) ==
    /\ pc[c] = "loop"
    /\ run[c].idx = NumPairs
    /\ scores' = ApplyPending(scores, pending[c])
    /\ pending' = [pending EXCEPT ![c] = <<>>]
    /\ result' = [result EXCEPT ![c] = ResultOf(run[c])]
    /\ totals' = [totals EXCEPT ![c] =
                     IF driver[c] = "backfill"
                         THEN [@ EXCEPT !.processed = @ + run[c].processed,
                                        !.written = @ + run[c].written,
                                        !.skipped = @ + run[c].skipped]
                         ELSE @]
    /\ hist' = [hist EXCEPT ![<<run[c].end_date, run[c].period_days>>] =
                   [seen |-> TRUE, inputs |-> run[c].fetched,
                    rows |-> WindowRows(scores', run[c].start_date_id,
                                        run[c].end_date_id),
                    commits |-> @.commits + 1,
                    repeats |-> IF @.seen /\ @.inputs = run[c].fetched
                                    THEN @.repeats + 1 ELSE 1,
                    aborted |-> @.aborted,
                    recovered |-> @.aborted]]
    /\ pc' = [pc EXCEPT ![c] = "driver"]
    /\ UNCHANGED <<events, clock, driver, job, run, raised, row, adl, call>>

\* the driver's loop is over: close the connection, print the summary
Finish(c) ==
    /\ pc[c] = "driver"
    /\ job[c] = <<>>
    /\ pc' = [pc EXCEPT ![c] = "done"]
    /\ totals' = [totals EXCEPT ![c].printed = TRUE]
    /\ UNCHANGED <<events, scores, clock, driver, job, run, pending, result,
                   raised, hist, row, adl, call>>

NoEvent ==
    [event_timestamp |-> 0, assistance_level |-> "", is_refusal |-> FALSE,
     event_title |-> None, event_description |-> None]

DefaultRow ==
    [resident_id |-> 1, domain_id |-> 1, event_timestamp |-> 0,
     assistance_level |-> "", is_refusal |-> "null",
     event_title |-> None, event_description |-> None]

\* hist[w]: the rows fetched by the last committed run of window w and the
\* window's rows after its commit, how many runs of w committed, how many of
\* them in a row fetched the same rows, whether a run of w was aborted with
\* upserts pending, and whether a run of w committed after that
\* no engine call under check
NoCall == [fn |-> "none", args |-> <<>>, done |-> TRUE, out |-> <<>>]

NoHist ==
    [seen |-> FALSE, inputs |-> <<>>, rows |-> <<>>, commits |-> 0,
     repeats |-> 0, aborted |-> FALSE, recovered |-> FALSE]

InitMain ==
    /\ events = <<>>
    /\ scores = <<>>
    /\ clock = 0
    /\ pc = [c \in Conns |-> "idle"]
    /\ driver = [c \in Conns |-> "calc"]
    /\ job = [c \in Conns |-> <<>>]
    /\ run = [c \in Conns |-> NoRun]
    /\ pending = [c \in Conns |-> <<>>]
    /\ result = [c \in Conns |-> NoResult]
    /\ totals = [c \in Conns |-> NoTotals]
    /\ raised = [c \in Conns |-> "none"]
    /\ hist = [w \in SnapshotDates \X (Periods \cup {7, 14, 30}) |-> NoHist]

Init ==
    /\ InitMain
    /\ row = DefaultRow
    /\ adl = NoEvent
    /\ call = NoCall

\* one driver process at a time: calculate_scores.py or backfill_scores.py,
\* run again and again on connection "A", while events are imported
Next ==
    \/ \E r \in ImportRows : ImportEvent(r)
    \/ \E d \in SnapshotDates, ps \in PeriodLists : StartCalc("A", d, ps)
    \/ \E d1, d2 \in SnapshotDates, ps \in PeriodLists :
           StartBackfill("A", d1, d2, ps)
    \/ BeginRun("A")
    \/ ProcessPair("A")
    \/ StorageFailure("A")
    \/ Commit("A")
    \/ Finish("A")

Spec == Init /\ [][Next]_vars

\* two driver processes of calculate_scores.py at once, one period each
NextConcurrent ==
    \/ \E r \in ImportRows : ImportEvent(r)
    \/ \E c \in Conns, d \in SnapshotDates, p \in Periods :
           pc[c] = "idle" /\ StartCalc(c, d, <<p>>)
    \/ \E c \in Conns : BeginRun(c)
    \/ \E c \in Conns : ProcessPair(c)
    \/ \E c \in Conns : StorageFailure(c)
    \/ \E c \in Conns : Commit(c)
    \/ \E c \in Conns : Finish(c)

SpecConcurrent == Init /\ [][NextConcurrent]_vars

(***************************************************************************)
(* backfill_scores.py run once on connection "A" while events are          *)
(* imported. The store itself does not fail here. The process is           *)
(* sequential: whenever its next statement can run, it eventually does     *)
(* (weak fairness of each of its steps; that of ProcessPair is spelled out *)
(* with its enabling condition PairReady).                                 *)
(***************************************************************************)
\* the calls one backfill makes at most: every snapshot date, every period
MaxBackfillRuns == Cardinality(SnapshotDates \X Periods)

\* ENABLED ProcessPair(c) when no other connection has a transaction open:
\* the loop has a pair left and no row lock can be held against it
PairReady(c) ==
    /\ pc[c] = "loop"
    /\ run[c].idx < NumPairs
    /\ \A d \in Conns \ {c} : pending[d] = <<>>

NextBackfill ==
    \/ \E r \in ImportRows : ImportEvent(r)
    \/ \E d1, d2 \in SnapshotDates, ps \in PeriodLists :
           pc["A"] = "idle" /\ StartBackfill("A", d1, d2, ps)
    \/ BeginRunWithin("A", MaxBackfillRuns)
    \/ ProcessPair("A")
    \/ Commit("A")
    \/ Finish("A")

SpecBackfill ==
    /\ Init
    /\ [][NextBackfill]_vars
    /\ WF_vars(BeginRunWithin("A", MaxBackfillRuns))
    /\ ([]<>~PairReady("A") \/ []<><<ProcessPair("A")>>_vars)
    /\ WF_vars(Commit("A"))
    /\ WF_vars(Finish("A"))

(***************************************************************************)
(* to_adl_events applied to one stored row after another.                  *)
(***************************************************************************)
RowTexts ==
    { None, Text(<<>>), Text(Words.sp), Text(Words.helped), Text(Words.refused),
      Text(Words.Resident \o Words.sp \o Words.refused \o Words.sp \o Words.morning \o Words.sp \o Words.wash),
      Text(Words.Away \o Words.sp \o Words.refused) }

RowInputs ==
    { [resident_id |-> 1, domain_id |-> 1, event_timestamp |-> 739676 * 24 + 8,
       assistance_level |-> l, is_refusal |-> b,
       event_title |-> t, event_description |-> d] :
        l \in AssistanceLevel \cup {"", "Assisted"}, b \in {"t", "f", "null"},
        t \in RowTexts, d \in RowTexts }

InitReconcile ==
    /\ InitMain
    /\ row \in RowInputs
    /\ adl = NoEvent
    /\ call = NoCall

Reconcile ==
    /\ adl = NoEvent
    /\ adl' = to_adl_event(row)
    /\ UNCHANGED <<events, scores, clock, pc, driver, job, run, pending,
                   result, totals, raised, hist, row, call>>

NextRow ==
    /\ adl # NoEvent
    /\ row' \in RowInputs
    /\ adl' = NoEvent
    /\ UNCHANGED <<events, scores, clock, pc, driver, job, run, pending,
                   result, totals, raised, hist, call>>

NextReconcile == Reconcile \/ NextRow

SpecReconcile == InitReconcile /\ [][NextReconcile]_vars

(***************************************************************************)
(* The classifier applied to one (description, title) pair.                *)
(***************************************************************************)
\* free texts of care-log entries: every keyword of the classifier on its
\* own, texts without a keyword, halves of a keyword, capitalised words,
\* blank and missing text
ClassifyTexts ==
    { Text(kw) : kw \in away_keywords \cup refusal_keywords
                        \cup independent_phrases \cup full_phrases
                        \cup partial_phrases }
    \cup { None, Text(<<>>), Text(Words.sp), Text(Words.wash), Text(Words.away),
           Text(Words.Away), Text(Words.Refused), Text(Words.did \o Words.sp \o Words.not),
           Text(Words.want), Text(Words.full), Text(Words.assistance),
           Text(Words.Resident \o Words.sp \o Words.refused \o Words.sp \o Words.morning
                    \o Words.sp \o Words.wash) }

\* a call of the given function on the given arguments, not yet evaluated
Call(fn, args) == [fn |-> fn, args |-> args, done |-> FALSE, out |-> <<>>]

ClassifyCalls ==
    { Call(fn, <<d, t>>) : fn \in {"parse_assistance_level", "is_refusal"},
                           d \in ClassifyTexts, t \in ClassifyTexts }

InitClassify ==
    /\ InitMain
    /\ row = DefaultRow
    /\ adl = NoEvent
    /\ call \in ClassifyCalls

\* the call under check returns
Return(fn, value) ==
    /\ call.fn = fn
    /\ ~call.done
    /\ call' = [call EXCEPT !.done = TRUE, !.out = value]
    /\ UNCHANGED <<events, scores, clock, pc, driver, job, run, pending,
                   result, totals, raised, hist, row, adl>>

ParseAssistanceLevel ==
    Return("parse_assistance_level",
           parse_assistance_level(call.args[1], call.args[2]))

IsRefusal ==
    Return("is_refusal", is_refusal(call.args[1], call.args[2]))

NextClassify == ParseAssistanceLevel \/ IsRefusal

SpecClassify == InitClassify /\ [][NextClassify]_vars

(***************************************************************************)
(* The scoring engine's functions, each applied to one set of arguments.   *)
(***************************************************************************)
MaxRefusals == 18   \* refusals counted in one window

\* lookback periods handed to the engine, the invalid ones included
EnginePeriods == {-1, 0, 1, 2, 7, 14, 30}

RefusalCalls ==
    { Call("calculate_refusal_score", <<c, p>>) :
        c \in 0..MaxRefusals, p \in EnginePeriods }

MaxScored == 6      \* events of a list with a numeric assistance level
MaxRefused == 4     \* refusal events of a list

\* an event list of the engine: `refused` refusals, then `scored` events
\* with a numeric level, flat (Some Assistance throughout) or rising (three
\* Independent, then Full Assistance), `gap` hours apart, handed over oldest
\* first or newest first
EngineEvents(refused, scored, rising, gap, newest_first) ==
    LET n == refused + scored
        at(i) ==
            [event_timestamp |-> 739670 * 24 + i * gap,
             assistance_level |->
                 IF i <= refused THEN REFUSED
                 ELSE IF ~rising THEN SOME_ASSISTANCE
                 ELSE IF i - refused <= 3 THEN INDEPENDENT
                 ELSE FULL_ASSISTANCE,
             is_refusal |-> i <= refused,
             event_title |-> None,
             event_description |-> None]
    IN  [i \in 1..n |-> IF newest_first THEN at(n + 1 - i) ELSE at(i)]

EngineEventLists ==
    { EngineEvents(r, k, t, g, o) :
        r \in 0..MaxRefused, k \in 0..MaxScored, t \in BOOLEAN,
        g \in {8, 30, 100}, o \in BOOLEAN }

\* domain names handed to the engine: the configured ones, a directory
\* entry without configuration, a name in another case, the empty name
EngineDomainNames ==
    (DOMAIN ADL_DOMAINS) \cup {"Mobility", "oral care", ""}

CareRiskCalls ==
    { Call("calculate_care_risk_score", <<evs, ADL_DOMAINS[n], p>>) :
        evs \in EngineEventLists, n \in {"Oral Care", "Washing/Bathing"},
        p \in EnginePeriods }

AnalyzeCalls ==
    { Call("analyze_resident_domain", <<1, n, evs, p>>) :
        n \in EngineDomainNames, evs \in EngineEventLists,
        p \in {-1, 0, 7, 30} }

MaxGap == 97        \* hours between two consecutive events

\* max_gap_hours in whole hours, or None for fewer than two events
GapCalls ==
    { Call("calculate_gap_score", <<g, ADL_DOMAINS[n]>>) :
        g \in {NoValue} \cup 0..MaxGap, n \in DOMAIN ADL_DOMAINS }

MaxEntries == 30    \* events recorded in one window

\* expected_per_day in halves: 0 (a degenerate configuration), 0.5, 1, 2, 4
DocumentationCalls ==
    { Call("calculate_documentation_score", <<a, e, p>>) :
        a \in 0..MaxEntries, e \in {0, 1, 2, 4, 8}, p \in EnginePeriods }

\* analyses as the dataclass admits them: a care risk score of 0..8 points
\* with its level, and a documentation score of any of the four levels
OverallRiskCalls ==
    { Call("overall_risk",
           <<[care_risk_score |->
                  [risk_level |-> RiskOfPoints(t), total_points |-> t],
              documentation_score |-> [risk_level |-> d]]>>) :
        t \in 0..8, d \in {GREEN, AMBER, RED, NOT_APPLICABLE} }

EngineCalls ==
    RefusalCalls \cup CareRiskCalls \cup AnalyzeCalls \cup GapCalls
        \cup DocumentationCalls \cup OverallRiskCalls

InitEngine ==
    /\ InitMain
    /\ row = DefaultRow
    /\ adl = NoEvent
    /\ call \in EngineCalls

CalculateRefusalScore ==
    Return("calculate_refusal_score",
           calculate_refusal_score(call.args[1], call.args[2]))

CalculateCareRiskScore ==
    Return("calculate_care_risk_score",
           calculate_care_risk_score(call.args[1], call.args[2], call.args[3]))

AnalyzeResidentDomain ==
    Return("analyze_resident_domain",
           analyze_resident_domain(call.args[1], call.args[2], call.args[3],
                                   call.args[4]))

CalculateGapScore ==
    Return("calculate_gap_score",
           calculate_gap_score(call.args[1], call.args[2]))

CalculateDocumentationScore ==
    Return("calculate_documentation_score",
           calculate_documentation_score(call.args[1], call.args[2],
                                         call.args[3]))

OverallRisk == Return("overall_risk", overall_risk(call.args[1]))

NextEngine ==
    \/ CalculateRefusalScore
    \/ OverallRisk
    \/ CalculateDocumentationScore
    \/ CalculateGapScore
    \/ CalculateCareRiskScore
    \/ AnalyzeResidentDomain

SpecEngine == InitEngine /\ [][NextEngine]_vars

(***************************************************************************)
(* calculate_dependency_score applied to one list of events.               *)
(***************************************************************************)
MaxTrendEvents == 7     \* events of a list handed to calculate_dependency_score

\* the events of the given assistance levels, one hour apart, handed over
\* oldest first or newest first
TrendEvents(levels, newest_first) ==
    [i \in 1..Len(levels) |->
        [event_timestamp |->
             739670 * 24 + (IF newest_first THEN Len(levels) - i ELSE i),
         assistance_level |-> levels[i],
         is_refusal |-> levels[i] = REFUSED,
         event_title |-> None,
         event_description |-> None]]

\* every list of up to MaxTrendEvents events, in either order
InitDependency ==
    /\ InitMain
    /\ row = DefaultRow
    /\ adl = NoEvent
    /\ \E n \in 0..MaxTrendEvents, o \in BOOLEAN :
           \E ls \in [1..n -> AssistanceLevel] :
               call = Call("calculate_dependency_score", <<TrendEvents(ls, o)>>)

CalculateDependencyScore ==
    Return("calculate_dependency_score",
           calculate_dependency_score(call.args[1]))

NextDependency == CalculateDependencyScore

SpecDependency == InitDependency /\ [][NextDependency]_vars

(***************************************************************************)
(* The window of one (end_date, period_days) and the events it fetches.    *)
(***************************************************************************)
MaxWindowDays == 30     \* the longest lookback period

\* 2024-03-01 (after a leap day), 2026-01-01 and 2026-03-01
WindowEndDates == {738946, 739617, 739676}

\* one stored event of resident 1 in domain 1, from the day before the
\* longest window to the day after the end date, at the first, a middle or
\* the last hour of its day
WindowEvents(end_date) ==
    { EventRow(1, 1, end_date - back, h, SOME_ASSISTANCE, "f", None) :
        back \in -1..(MaxWindowDays + 1), h \in {0, 12, 23} }

InitWindow ==
    /\ InitMain
    /\ row = DefaultRow
    /\ adl = NoEvent
    /\ \E d \in WindowEndDates, p \in 1..MaxWindowDays :
           \/ call = Call("build_event_window", <<d, p>>)
           \/ \E e \in WindowEvents(d) :
                  call = Call("fetch_events", <<d, p, <<e>>>>)

BuildEventWindow ==
    Return("build_event_window",
           build_event_window(call.args[1], call.args[2]))

\* calculate_period_scores, lines 235 and 244: the window, then the rows of
\* the pair within it
FetchEvents ==
    LET w == build_event_window(call.args[1], call.args[2])
    IN  Return("fetch_events",
               [window |-> w,
                rows |-> fetch_events(call.args[3], 1, 1, w.start_dt, w.end_dt)])

NextWindow == BuildEventWindow \/ FetchEvents

SpecWindow == InitWindow /\ [][NextWindow]_vars

(***************************************************************************)
(* analyze_resident_domain on event lists in any order, several events of  *)
(* one timestamp included.                                                 *)
(***************************************************************************)
MaxTied == 6        \* events of a list

\* an oral care event at base hour + h of the given level
TiedEvent(h, level) ==
    [event_timestamp |-> 739670 * 24 + h, assistance_level |-> level,
     is_refusal |-> FALSE, event_title |-> None, event_description |-> None]

\* lists of events at three hours (10 and 20 hours apart), Independent or
\* Full Assistance, in every order
InitTies ==
    /\ InitMain
    /\ row = DefaultRow
    /\ adl = NoEvent
    /\ \E n \in 0..MaxTied :
           \E evs \in [1..n -> { TiedEvent(h, l) :
                                   h \in {0, 10, 30},
                                   l \in {INDEPENDENT, FULL_ASSISTANCE} }] :
               call = Call("analyze_resident_domain", <<1, "Oral Care", evs, 7>>)

NextTies == AnalyzeResidentDomain

SpecTies == InitTies /\ [][NextTies]_vars

(***************************************************************************)
(* calculate_scores.py over a store that does not change, with the         *)
(* resident and the domain directory handed over in any order.             *)
(***************************************************************************)
\* two of these three directory entries, in either order
OrderDomains ==
    { <<a, b>> : a, b \in { [domain_id |-> 2, domain_name |-> "Mobility"],
                            [domain_id |-> 1, domain_name |-> "Oral Care"],
                            [domain_id |-> 3, domain_name |-> "Washing/Bathing"] } }
        \ { <<a, a>> : a \in { [domain_id |-> 2, domain_name |-> "Mobility"],
                               [domain_id |-> 1, domain_name |-> "Oral Care"],
                               [domain_id |-> 3, domain_name |-> "Washing/Bathing"] } }

OrderResidents ==
    { ActiveResidents, <<ActiveResidents[2], ActiveResidents[1]>> }

MaxStored == 3      \* rows of fact_adl_event when the run starts

\* the stored events, oldest first
OrderRows ==
    << EventRow(1, 1, 739675, 8, SOME_ASSISTANCE, "f", Text(Words.helped)),
       EventRow(1, 3, 739675, 9, INDEPENDENT, "f", Text(Words.independently)),
       EventRow(2, 3, 739675, 20, SOME_ASSISTANCE, "f", Text(Words.helped)),
       EventRow(1, 1, 739676, 8, REFUSED, "t", Text(Words.refused)),
       EventRow(2, 2, 739676, 8, SOME_ASSISTANCE, "f", Text(Words.helped)),
       EventRow(1, 3, 739676, 20, REFUSED, "t", Text(Words.refused)) >>

InitOrder ==
    /\ InitMain
    /\ row = DefaultRow
    /\ adl = NoEvent
    /\ \E rs \in OrderResidents, ds \in OrderDomains :
           call = Call("calculate_period_scores", <<rs, ds>>)

\* the rows the store holds when the driver starts
StoreEvents ==
    /\ pc["A"] = "idle"
    /\ events = <<>>
    /\ \E keep \in SUBSET (1..Len(OrderRows)) :
           /\ Cardinality(keep) <= MaxStored
           /\ events' = SelectSeq(OrderRows,
                                  LAMBDA r : \E i \in keep : OrderRows[i] = r)
    /\ UNCHANGED <<scores, clock, pc, driver, job, run, pending, result,
                   totals, raised, hist, row, adl, call>>

\* one iteration of the loop over the directories of the call
MaterializePair(c) ==
    /\ pc[c] = "loop"
    /\ run[c].idx < NumPairs
    /\ PairStep(c, process_pair_of(
                       call.args[1][(run[c].idx \div Len(call.args[2])) + 1],
                       call.args[2][(run[c].idx % Len(call.args[2])) + 1],
                       run[c], pending[c], events))

NextOrder ==
    \/ StoreEvents
    \/ \E d \in SnapshotDates, ps \in PeriodLists :
           pc["A"] = "idle" /\ StartCalc("A", d, ps)
    \/ BeginRun("A")
    \/ MaterializePair("A")
    \/ Commit("A")
    \/ Finish("A")

SpecOrder == InitOrder /\ [][NextOrder]_vars

(***************************************************************************)
(* Properties.                                                             *)
(***************************************************************************)
\* connection c's calculate_period_scores commits in this step
Commits(c) == pc[c] = "loop" /\ pc'[c] = "driver"

\* the stored events of a pair that fall on a day of the run's window
\* [end_date - period_days + 1, end_date]
InWindow(rn, k) ==
    { i \in 1..Len(events) :
        /\ events[i].resident_id = ResidentAt(k).resident_id
        /\ events[i].domain_id = DomainAt(k).domain_id
        /\ events[i].event_timestamp \div 24 >= rn.end_date - rn.period_days + 1
        /\ events[i].event_timestamp \div 24 <= rn.end_date }

\* the row a run owes to the store for its k-th pair, from the rows it fetched
ExpectedRow(rn, k) ==
    ScoreRow(ResidentAt(k).resident_id, DomainAt(k).domain_id,
             date_to_date_id(rn.end_date - rn.period_days + 1),
             date_to_date_id(rn.end_date),
             analyze_resident_domain(ResidentAt(k).resident_id,
                                     DomainAt(k).domain_name,
                                     to_adl_events(rn.fetched[k + 1]),
                                     rn.period_days),
             rn.now)

\* the engine has a configuration for the k-th pair's domain
Scorable(k) == DomainAt(k).domain_name \in DOMAIN ADL_DOMAINS

UniqueKeys(tbl) ==
    \A i, j \in 1..Len(tbl) : KeyOf(tbl[i]) = KeyOf(tbl[j]) => i = j

C2_OneRowPerKey == UniqueKeys(scores)

C2_Witness ==
    \E w \in DOMAIN hist :
        /\ hist[w].commits >= 2
        /\ \E i \in 1..Len(scores) :
               /\ scores[i].calculated_at >= 2
               /\ ScoreFields(scores[i]) \in
                      {hist[w].rows[j] : j \in 1..Len(hist[w].rows)}

\* C3: a loop iteration whose pair has no stored event on a day of the window
\* writes nothing, adds one to processed and to skipped, leaves written alone
\* and goes on with the next pair.
C3_ZeroEventsSkipped ==
    [][\A c \in Conns :
          (/\ pc[c] = "loop"
           /\ run'[c].processed = run[c].processed + 1
           /\ raised'[c] = "none"
           /\ InWindow(run[c], run[c].idx) = {})
              => /\ pending'[c] = pending[c]
                 /\ scores' = scores
                 /\ run'[c].skipped = run[c].skipped + 1
                 /\ run'[c].written = run[c].written
                 /\ run'[c].idx = run[c].idx + 1
                 /\ pc'[c] = "loop"]_vars

C3_Witness ==
    \E c \in Conns :
        /\ pc[c] = "loop"
        /\ run[c].skipped >= 1
        /\ run[c].written >= 1
        /\ run[c].fetched[1] = <<>>

\* C4: every dict calculate_period_scores returns has processed = written +
\* skipped (no combination is left unaccounted; the code counts no errors,
\* an error returns no dict) and processed = residents * domains, and the
\* backfill driver's totals satisfy total_processed = total_written +
\* total_skipped.
C4_CountsReconcile ==
    \A c \in Conns :
        /\ result[c].valid =>
               /\ result[c].processed = result[c].written + result[c].skipped
               /\ result[c].processed = result[c].residents * result[c].domains
        /\ totals[c].processed = totals[c].written + totals[c].skipped

C4_Witness ==
    \E c \in Conns :
        /\ driver[c] = "backfill"
        /\ totals[c].printed
        /\ totals[c].written >= 1
        /\ totals[c].skipped >= 5

\* C5: an exception raised for one combination (unknown domain name, or a
\* failed fetch or upsert) is caught for that item: the run stays in its
\* loop, counts the item as skipped and not as written, and moves on to the
\* next combination.
C5_ItemFailureContained ==
    [][\A c \in Conns :
          (pc[c] = "loop" /\ raised'[c] # "none")
              => /\ pc'[c] = "loop"
                 /\ run'[c].idx = run[c].idx + 1
                 /\ run'[c].written = run[c].written
                 /\ run'[c].skipped = run[c].skipped + 1]_vars

\* C6: the committed table changes only when a run commits, and then every
\* row the run upserted is in it; a run that fails leaves the table as it
\* was. The rows of a committed run are the rows computed from what it
\* fetched, whether or not an earlier run of the window was aborted.
C6_AllOrNothing ==
    [][/\ scores' # scores =>
              \E c \in Conns :
                  /\ Commits(c)
                  /\ run[c].idx = NumPairs
                  /\ \A i \in 1..Len(pending[c]) :
                         \E j \in 1..Len(scores') : scores'[j] = pending[c][i]
       /\ \A c \in Conns :
              Commits(c) =>
                  \A k \in 0..(NumPairs - 1) :
                      run[c].fetched[k + 1] # <<>> =>
                          \E j \in 1..Len(scores') :
                              scores'[j] = ExpectedRow(run[c], k)]_vars

C6_Witness ==
    \E w \in DOMAIN hist :
        /\ hist[w].recovered
        /\ Len(hist[w].rows) >= 2

\* C7: with two runs interleaved, the table holds at most one row per
\* identity tuple and each row is, field for field, the row one run computed
\* from the rows it fetched for that pair.
C7_AtomicUpsert ==
    /\ UniqueKeys(scores)
    /\ \A j \in 1..Len(scores) :
           \E c \in Conns :
               \E k \in 0..(Len(run[c].fetched) - 1) :
                   /\ run[c].fetched[k + 1] # <<>>
                   /\ Scorable(k)
                   /\ scores[j] = ExpectedRow(run[c], k)

\* both runs wrote the same identity tuple with different score fields, and
\* the run that began first committed last
C7_Witness ==
    \E a, b \in Conns :
        /\ a # b
        /\ result[a].valid /\ result[b].valid
        /\ run[a].now < run[b].now
        /\ \E k \in 0..(NumPairs - 1) :
               /\ Scorable(k)
               /\ run[a].fetched[k + 1] # <<>>
               /\ run[b].fetched[k + 1] # <<>>
               /\ KeyOf(ExpectedRow(run[a], k)) = KeyOf(ExpectedRow(run[b], k))
               /\ ScoreFields(ExpectedRow(run[a], k))
                      # ScoreFields(ExpectedRow(run[b], k))
               /\ \E j \in 1..Len(scores) : scores[j] = ExpectedRow(run[a], k)

\* the rows of the table with the given window identifiers
RowsOfWindow(tbl, ids) ==
    SelectSeq(tbl, LAMBDA r : <<r.start_date_id, r.end_date_id>> = ids)

WindowIds(tbl) ==
    { <<tbl[i].start_date_id, tbl[i].end_date_id>> : i \in 1..Len(tbl) }

\* C8: the rows of a window (start_date_id, end_date_id) change only in the
\* commit of a run whose window [end_date - period_days + 1, end_date] has
\* these identifiers; every other window's rows stay as they are.
C8_FrameOfWindow ==
    [][\A ids \in WindowIds(scores) \cup WindowIds(scores') :
          RowsOfWindow(scores', ids) # RowsOfWindow(scores, ids) =>
              \E c \in Conns :
                  /\ Commits(c)
                  /\ ids = << date_to_date_id(run[c].end_date
                                                  - run[c].period_days + 1),
                              date_to_date_id(run[c].end_date) >>]_vars

\* a run of one window has committed rows while a run of another window,
\* begun earlier, still has its upserts pending
C8_Witness ==
    \E a, b \in Conns :
        /\ result[a].valid /\ result[a].written >= 1
        /\ pc[b] = "loop" /\ pending[b] # <<>>
        /\ run[b].now < run[a].now
        /\ <<run[a].start_date_id, run[a].end_date_id>>
               # <<run[b].start_date_id, run[b].end_date_id>>
        /\ \E j \in 1..Len(scores) : scores[j].calculated_at = run[a].now

\* some character of the text is not a blank
NonBlank(t) == ~t.isNone /\ \E i \in 1..Len(t.chars) : t.chars[i] # " "

\* C9: the is_refusal of the ADLEvent built from a stored row is the
\* classifier's answer for the row's text when the title or the description
\* is non-blank, whatever the stored boolean; it is the stored boolean only
\* when both are blank or absent.
C9_RefusalRecomputed ==
    adl # NoEvent =>
        adl.is_refusal =
            IF NonBlank(row.event_title) \/ NonBlank(row.event_description)
                THEN is_refusal(row.event_description, row.event_title)
                ELSE row.is_refusal = "t"

C9_Witness ==
    /\ adl # NoEvent
    /\ NonBlank(row.event_title)
    /\ row.is_refusal = "f"
    /\ adl.is_refusal

\* C10: an ADLEvent built from a row with text has is_refusal true exactly
\* when its assistance_level is Refused.
C10_RefusalMatchesLevel ==
    (adl # NoEvent
        /\ (NonBlank(row.event_title) \/ NonBlank(row.event_description)))
            => (adl.is_refusal <=> adl.assistance_level = REFUSED)

\* the text the classifier searches: the description and the title in lower
\* case, a missing one taken as empty, with one blank between them
Searched(d, t) ==
    Lower((IF d.isNone THEN <<>> ELSE d.chars) \o Words.sp
              \o (IF t.isNone THEN <<>> ELSE t.chars))

\* the rules of the classifier, highest priority first
ClassifierRules ==
    << [keywords |-> away_keywords, level |-> NOT_SPECIFIED],
       [keywords |-> refusal_keywords, level |-> REFUSED],
       [keywords |-> independent_phrases, level |-> INDEPENDENT],
       [keywords |-> full_phrases, level |-> FULL_ASSISTANCE],
       [keywords |-> partial_phrases, level |-> SOME_ASSISTANCE] >>

\* the rules some keyword of which occurs in the searched text
Matching(d, t) ==
    { i \in 1..Len(ClassifierRules) :
        \E kw \in ClassifierRules[i].keywords :
            \E k \in 1..Len(Searched(d, t)) :
                /\ k + Len(kw) - 1 <= Len(Searched(d, t))
                /\ \A j \in 1..Len(kw) : Searched(d, t)[k + j - 1] = kw[j] }

\* C11: for every description and title, missing and empty ones included,
\* parse_assistance_level returns one AssistanceLevel: the level of the
\* matching rule of highest priority (away, refusal, independent, full,
\* partial), Not Specified when no rule matches; and is_refusal is false for
\* a text the away rule matches.
C11_DecisionList ==
    /\ (call.fn = "parse_assistance_level" /\ call.done) =>
           LET m == Matching(call.args[1], call.args[2])
           IN  /\ call.out \in AssistanceLevel
               /\ m = {} => call.out = NOT_SPECIFIED
               /\ m # {} =>
                      \E i \in m : /\ \A j \in m : i <= j
                                   /\ call.out = ClassifierRules[i].level
    /\ (call.fn = "is_refusal" /\ call.done
            /\ 1 \in Matching(call.args[1], call.args[2])) => call.out = FALSE

\* a text with an away keyword and a refusal keyword is Not Specified
C11_Witness ==
    /\ call.fn = "parse_assistance_level"
    /\ call.done
    /\ {1, 2} \subseteq Matching(call.args[1], call.args[2])
    /\ call.out = NOT_SPECIFIED

\* a finished call of the given function
Done(fn) == call.fn = fn /\ call.done

\* C12: for refusal_count >= 0 and period_days > 0 calculate_refusal_score
\* gives 3 points iff refusal_count / period_days >= 4/7, 2 points iff the
\* rate is in [2/7, 4/7), and 0 points otherwise.
C12_RefusalRate ==
    (Done("calculate_refusal_score") /\ call.args[2] > 0) =>
        LET c == call.args[1]
            p == call.args[2]
        IN  /\ call.out.error = "none"
            /\ call.out.points \in {0, 2, 3}
            /\ call.out.points = 3 <=> 7 * c >= 4 * p
            /\ call.out.points = 2 <=> (7 * c >= 2 * p /\ 7 * c < 4 * p)
            /\ call.out.points = 0 <=> 7 * c < 2 * p

\* four refusals in fourteen days are exactly the amber rate
C12_Witness ==
    /\ Done("calculate_refusal_score")
    /\ call.args = <<4, 14>>
    /\ call.out.points = 2

\* the domains the engine is configured for
ConfiguredDomains ==
    {"Washing/Bathing", "Oral Care", "Dressing/Clothing", "Toileting",
     "Grooming"}

\* C13: calculate_refusal_score, calculate_care_risk_score and
\* analyze_resident_domain raise the invalid-input error for period_days <= 0,
\* analyze_resident_domain raises it for a domain name outside the five
\* configured ones, and what comes back then is the error alone, no score.
C13_InvalidInputRaises ==
    /\ (Done("calculate_refusal_score") /\ call.args[2] <= 0) =>
           call.out = [error |-> "ValueError"]
    /\ (Done("calculate_care_risk_score") /\ call.args[3] <= 0) =>
           call.out = [error |-> "ValueError"]
    /\ (Done("analyze_resident_domain")
            /\ (call.args[4] <= 0 \/ call.args[2] \notin ConfiguredDomains)) =>
           call.out = [error |-> "ValueError"]

\* an unconfigured domain with a valid period and events to score
C13_Witness ==
    /\ Done("analyze_resident_domain")
    /\ call.args[2] = "Mobility"
    /\ call.args[4] = 7
    /\ Len(call.args[3]) >= 6
    /\ call.out = [error |-> "ValueError"]

\* C14: for every domain configuration calculate_gap_score gives 3 points
\* iff max_gap_hours is above the red threshold, 2 points iff it is above the
\* amber threshold and at most the red one, 0 points iff it is at most the
\* amber threshold; a missing max_gap_hours gives 0 points.
C14_GapThresholds ==
    Done("calculate_gap_score") =>
        LET g == call.args[1]
            amber == call.args[2].gap_threshold_amber
            red == call.args[2].gap_threshold_red
        IN  IF g = NoValue THEN call.out.points = 0
            ELSE /\ call.out.points \in {0, 2, 3}
                 /\ call.out.points = 3 <=> g > red
                 /\ call.out.points = 2 <=> (g > amber /\ g <= red)
                 /\ call.out.points = 0 <=> g <= amber

\* a gap of exactly the red threshold is still amber
C14_Witness ==
    /\ Done("calculate_gap_score")
    /\ call.args[1] = call.args[2].gap_threshold_red
    /\ call.out.points = 2

\* the events of a list whose assistance level has a numeric score
Scored(evs) ==
    { i \in 1..Len(evs) :
        evs[i].assistance_level
            \in {"Independent", "Some Assistance", "Full Assistance"} }

\* C15: calculate_dependency_score gives 0 points for a list of fewer than 6
\* events, whatever they are, and for a list of which fewer than 6 events are
\* left once the Refused and Not Specified ones are set aside.
C15_TooFewEvents ==
    (Done("calculate_dependency_score")
         /\ (Len(call.args[1]) < 6 \/ Cardinality(Scored(call.args[1])) < 6))
        => call.out.points = 0

\* six or more events, five of them scored, from Independent to Full
\* Assistance
C15_Witness ==
    /\ Done("calculate_dependency_score")
    /\ Len(call.args[1]) >= 6
    /\ Cardinality(Scored(call.args[1])) = 5
    /\ \A i \in 1..3 : call.args[1][i].assistance_level = "Independent"
    /\ \A i \in 5..6 : call.args[1][i].assistance_level = "Full Assistance"
    /\ call.out.points = 0

\* the numeric score of an assistance level
LevelValue(level) ==
    CASE level = "Independent" -> 0
      [] level = "Some Assistance" -> 1
      [] level = "Full Assistance" -> 2

\* how many scored events of the list are no later than its i-th event
TimeRank(evs, i) ==
    Cardinality({ j \in Scored(evs) :
                    evs[j].event_timestamp <= evs[i].event_timestamp })

\* the sum of the numeric scores of the scored events whose rank in time is
\* in the given range
SumOfRanks(evs, from, to) ==
    LET at(k) == CHOOSE i \in Scored(evs) : TimeRank(evs, i) = k
    IN  SumSeq([k \in 1..(to - from + 1) |->
                   LevelValue(evs[at(from + k - 1)].assistance_level)])

\* C16: with six or more scored events calculate_dependency_score gives 2
\* points iff the three latest scored events, by event_timestamp, sum to at
\* least 2 more than the three earliest scored ones (their mean is more than
\* 0.5 higher), Refused and Not Specified events taking no place among them;
\* it gives 0 points otherwise.
C16_DependencyTrend ==
    (Done("calculate_dependency_score")
         /\ Cardinality(Scored(call.args[1])) >= 6) =>
        LET evs == call.args[1]
            n == Cardinality(Scored(evs))
            rise == SumOfRanks(evs, n - 2, n) - SumOfRanks(evs, 1, 3)
        IN  /\ call.out.points \in {0, 2}
            /\ call.out.points = 2 <=> rise >= 2

\* a list handed over newest first, whose earliest event is a refusal, and
\* whose scored events rise
C16_Witness ==
    /\ Done("calculate_dependency_score")
    /\ Len(call.args[1]) = 7
    /\ call.args[1][1].event_timestamp > call.args[1][7].event_timestamp
    /\ call.args[1][7].assistance_level = "Refused"
    /\ Cardinality(Scored(call.args[1])) = 6
    /\ call.out.points = 2

\* C17: for every event list, domain configuration and period_days > 0 the
\* result of calculate_care_risk_score has three components, the refusal,
\* the gap and the dependency score in this order, total_points is the sum
\* of their points, and risk_level is RED iff total_points >= 5, AMBER iff
\* total_points is 2, 3 or 4, GREEN otherwise.
C17_CareRiskTotal ==
    (Done("calculate_care_risk_score") /\ call.args[3] > 0) =>
        LET crs == call.out
        IN  /\ crs.error = "none"
            /\ Len(crs.components) = 3
            /\ crs.components[1].component_name = "refusal_score"
            /\ crs.components[2].component_name = "gap_score"
            /\ crs.components[3].component_name = "dependency_score"
            /\ crs.total_points = crs.components[1].points
                   + crs.components[2].points + crs.components[3].points
            /\ crs.risk_level \in {"GREEN", "AMBER", "RED"}
            /\ crs.risk_level = "RED" <=> crs.total_points >= 5
            /\ crs.risk_level = "AMBER" <=>
                   (crs.total_points >= 2 /\ crs.total_points <= 4)

\* four refusals in seven days, gaps above the red threshold and a rising
\* dependency: every component scores, and the level is RED
C17_Witness ==
    /\ Done("calculate_care_risk_score")
    /\ call.args[3] = 7
    /\ Cardinality({i \in 1..Len(call.args[1]) : call.args[1][i].is_refusal}) = 4
    /\ call.out.components[1].points = 3
    /\ call.out.components[2].points = 3
    /\ call.out.components[3].points = 2
    /\ call.out.total_points = 8
    /\ call.out.risk_level = "RED"

Severity(level) ==
    CASE level = "GREEN" -> 0
      [] level = "N/A" -> 0
      [] level = "AMBER" -> 1
      [] level = "RED" -> 2

\* C19: for every care risk level GREEN, AMBER or RED and every
\* documentation level GREEN, AMBER, RED or N/A, overall_risk is GREEN, AMBER
\* or RED, and its severity is the higher of the two severities.
C19_OverallIsWorst ==
    Done("overall_risk") =>
        LET c == Severity(call.args[1].care_risk_score.risk_level)
            d == Severity(call.args[1].documentation_score.risk_level)
        IN  /\ call.out \in {"GREEN", "AMBER", "RED"}
            /\ Severity(call.out) = IF c >= d THEN c ELSE d

\* a GREEN care risk with an N/A documentation score is GREEN overall
C19_Witness ==
    /\ Done("overall_risk")
    /\ call.args[1].care_risk_score.risk_level = "GREEN"
    /\ call.args[1].documentation_score.risk_level = "N/A"
    /\ call.out = "GREEN"

\* a year of the Gregorian calendar with a 29th of February
LeapYear(y) == y % 4 = 0 /\ (y % 100 # 0 \/ y % 400 = 0)

DaysInMonth(y, m) ==
    IF m = 2 THEN (IF LeapYear(y) THEN 29 ELSE 28)
    ELSE IF m \in {4, 6, 9, 11} THEN 30 ELSE 31

\* the ordinal of the calendar date written YYYYMMDD (1 for 00010101), or 0
\* if the integer does not write a calendar date
OrdinalOfDateId(id) ==
    LET y == id \div 10000
        m == (id \div 100) % 100
        d == id % 100
        before == (y - 1) * 365 + (y - 1) \div 4 - (y - 1) \div 100
                      + (y - 1) \div 400
    IN  IF y < 1 \/ y > 9999 \/ m < 1 \/ m > 12 \/ d < 1 \/ d > DaysInMonth(y, m)
            THEN 0
        ELSE before + SumSeq([k \in 1..(m - 1) |-> DaysInMonth(y, k)]) + d

\* C20: for period_days >= 1 the window of (end_date, period_days) runs from
\* the first instant of the day end_date - period_days + 1 to the last
\* instant of the day end_date, so that it covers period_days days and starts
\* no later than it ends; its start_date_id and end_date_id write these two
\* days as YYYYMMDD; and a stored event of the pair is fetched iff its
\* timestamp is on one of the days of the window.
C20_InclusiveWindow ==
    /\ Done("build_event_window") =>
           LET end_date == call.args[1]
               first == call.args[1] - call.args[2] + 1
               w == call.out
           IN  /\ w.start_dt = first * 24
               /\ w.end_dt = end_date * 24 + 23
               /\ w.start_dt <= w.end_dt
               /\ Cardinality({ d \in (first - 1)..(end_date + 1) :
                                  \A h \in 0..23 :
                                      /\ w.start_dt <= d * 24 + h
                                      /\ d * 24 + h <= w.end_dt })
                      = call.args[2]
               /\ OrdinalOfDateId(w.start_date_id) = first
               /\ OrdinalOfDateId(w.end_date_id) = end_date
    /\ Done("fetch_events") =>
           LET e == call.args[3][1]
               day == e.event_timestamp \div 24
               on_a_day == /\ day >= call.args[1] - call.args[2] + 1
                           /\ day <= call.args[1]
           IN  /\ on_a_day => call.out.rows = <<e>>
               /\ ~on_a_day => call.out.rows = <<>>

\* the two days to 2024-03-01 begin on the leap day, and an event of its
\* first hour is fetched
C20_Witness ==
    /\ Done("fetch_events")
    /\ call.args[1] = 738946
    /\ call.args[2] = 2
    /\ call.out.window.start_date_id = 20240229
    /\ call.out.window.end_date_id = 20240301
    /\ call.args[3][1].event_timestamp = 738945 * 24
    /\ Len(call.out.rows) = 1

(***************************************************************************)
(* The backfill driver.                                                    *)
(***************************************************************************)
\* backfill_scores.main has just been started with this plan
Planned(plan) ==
    /\ pc["A"] = "driver"
    /\ driver["A"] = "backfill"
    /\ job["A"] = plan
    /\ run["A"] = NoRun

\* the driver is through and every (day, period) of the plan was
\* materialized once, nothing else
Completed(plan) ==
    /\ pc["A"] = "done"
    /\ \A w \in DOMAIN hist :
           hist[w].commits = Cardinality({i \in 1..Len(plan) : plan[i] = w})

\* C21: a backfill over start_date <= end_date calls materialize once for
\* every (day of the range, configured period), days ascending, and then
\* terminates, whatever the days hold.
C21_BackfillCompletes ==
    /\ [][pc["A"] = "driver" /\ pc'["A"] = "loop"
             => run'["A"].end_date >= run["A"].end_date]_vars
    /\ \A d1, d2 \in SnapshotDates, ps \in PeriodLists :
           (d1 <= d2 /\ Planned(BackfillJob(d1, d2, ps)))
               ~> Completed(BackfillJob(d1, d2, ps))

(***************************************************************************)
(* The point values of the engine.                                         *)
(***************************************************************************)
\* the points of a care risk score and of its three components
FixedPoints(crs) ==
    /\ crs.components[1].points \in {0, 2, 3}
    /\ crs.components[2].points \in {0, 2, 3}
    /\ crs.components[3].points \in {0, 2}
    /\ crs.total_points \in {0, 2, 3, 4, 5, 6, 7, 8}
    /\ crs.total_points # 1
    /\ crs.risk_level = GREEN <=> crs.total_points = 0

\* C22: every component the engine returns has points of its fixed set,
\* refusal {0, 2, 3}, gap {0, 2, 3}, dependency {0, 2}; so total_points is
\* one of 0, 2, 3, 4, 5, 6, 7, 8, never 1, and the care risk level is GREEN
\* exactly when total_points is 0.
C22_FixedPoints ==
    /\ (Done("calculate_refusal_score") /\ call.out.error = "none") =>
           /\ call.out.component_name = "refusal_score"
           /\ call.out.points \in {0, 2, 3}
    /\ Done("calculate_gap_score") =>
           /\ call.out.component_name = "gap_score"
           /\ call.out.points \in {0, 2, 3}
    /\ (Done("calculate_care_risk_score") /\ call.out.error = "none") =>
           FixedPoints(call.out)
    /\ (Done("analyze_resident_domain") /\ call.out.error = "none") =>
           FixedPoints(call.out.care_risk_score)

\* a gap between the amber and the red threshold and nothing else: 2 points
\* in all, the smallest total that is not GREEN
C22_Witness ==
    /\ Done("calculate_care_risk_score")
    /\ call.out.error = "none"
    /\ call.out.components[1].points = 0
    /\ call.out.components[2].points = 2
    /\ call.out.components[3].points = 0
    /\ call.out.total_points = 2
    /\ call.out.risk_level = AMBER

(***************************************************************************)
(* The order of the pairs.                                                 *)
(***************************************************************************)
\* every order of a list
Orders(s) ==
    { [i \in 1..Len(s) |-> s[f[i]]] : f \in Permutations(1..Len(s)) }

\* the rows of a run's window in a table, as a set
WindowSet(tbl, rn) ==
    LET rows == RowsOfWindow(tbl, <<rn.start_date_id, rn.end_date_id>>)
    IN  { rows[i] : i \in 1..Len(rows) }

\* what the run rn would leave behind over the lists rs and ds
Outcome(rs, ds, rn) ==
    LET out == materialize_pairs(rs, ds, [rn EXCEPT !.idx = 0, !.processed = 0,
                                             !.written = 0, !.skipped = 0,
                                             !.fetched = <<>>],
                                 <<>>, events)
    IN  IF out.raised # "none"
            THEN [raised |-> out.raised, rows |-> {}, processed |-> 0,
                  written |-> 0, skipped |-> 0]
        ELSE [raised |-> "none",
              rows |-> WindowSet(ApplyPending(<<>>, out.pending), rn),
              processed |-> out.run.processed, written |-> out.run.written,
              skipped |-> out.run.skipped]

\* a run of the call has ended, by its commit or by an exception
RunEnded ==
    /\ call.fn = "calculate_period_scores"
    /\ \/ pc["A"] = "failed"
       \/ pc["A"] \in {"driver", "done"} /\ result["A"].valid

\* C23: whatever the order of the resident list and of the domain list, a
\* materialize run leaves the same set of rows in the store and returns the
\* same processed, written and skipped counts.
C23_OrderIndependent ==
    RunEnded =>
        \A rs \in Orders(call.args[1]), ds \in Orders(call.args[2]) :
            LET o == Outcome(rs, ds, run["A"])
            IN  /\ o.rows = WindowSet(scores, run["A"])
                /\ IF pc["A"] = "failed"
                      THEN o.raised = raised["A"]
                      ELSE /\ o.raised = "none"
                           /\ o.processed = result["A"].processed
                           /\ o.written = result["A"].written
                           /\ o.skipped = result["A"].skipped

\* a committed run that wrote rows of both domains for one resident and
\* skipped a pair
C23_Witness ==
    /\ RunEnded
    /\ pc["A"] = "done"
    /\ result["A"].written = 3
    /\ result["A"].skipped = 1
    /\ \E i, j \in 1..Len(scores) :
           /\ scores[i].resident_id = scores[j].resident_id
           /\ scores[i].domain_id # scores[j].domain_id
           /\ KeyOf(scores[i])[3] = KeyOf(scores[j])[3]
           /\ KeyOf(scores[i])[4] = KeyOf(scores[j])[4]

(***************************************************************************)
(* The largest gap.                                                        *)
(***************************************************************************)
\* the differences between one timestamp of the list and the next later one
NeighbourGaps(evs) ==
    LET ts == { evs[i].event_timestamp : i \in 1..Len(evs) }
    IN  { t2 - t1 : <<t1, t2>> \in
            { p \in ts \X ts : /\ p[1] < p[2]
                                /\ ~\E t \in ts : p[1] < t /\ t < p[2] } }

\* C24: max_gap_hours is null exactly when the list holds fewer than two
\* events; otherwise it is the largest difference in hours between
\* consecutive events in timestamp order, never negative, and 0 when all
\* events share one timestamp; the analysis reports the value its gap
\* component was computed from.
C24_MaxGap ==
    (Done("analyze_resident_domain") /\ call.out.error = "none") =>
        LET evs == call.args[3]
            gap == call.out.max_gap_hours
        IN  /\ gap = NoValue <=> Len(evs) < 2
            /\ Len(evs) >= 2 =>
                   /\ gap >= 0
                   /\ \A g \in NeighbourGaps(evs) : gap >= g
                   /\ gap \in NeighbourGaps(evs) \cup {0}
                   /\ gap = 0 <=> NeighbourGaps(evs) = {}
            /\ call.out.care_risk_score.components[2] =
                   calculate_gap_score(gap, ADL_DOMAINS[call.args[2]])

\* events handed over newest first, two of them of one timestamp, and
\* twenty hours to the next one
C24_Witness ==
    /\ Done("analyze_resident_domain")
    /\ Len(call.args[3]) = 4
    /\ call.args[3][1].event_timestamp > call.args[3][2].event_timestamp
    /\ call.args[3][2].event_timestamp = call.args[3][3].event_timestamp
    /\ call.args[3][3].event_timestamp > call.args[3][4].event_timestamp
    /\ call.out.max_gap_hours = 20
    /\ call.out.care_risk_score.components[2].points = 2

(***************************************************************************)
(* The order of the events.                                                *)
(***************************************************************************)
\* the list with the events at i and i + 1 exchanged
Exchanged(evs, i) ==
    [k \in 1..Len(evs) |->
        IF k = i THEN evs[i + 1] ELSE IF k = i + 1 THEN evs[i] ELSE evs[k]]

\* C25: analyze_resident_domain gives the same scores, points and metrics
\* for every order of its event list, events of one timestamp and different
\* assistance levels included (every order is reached by exchanging
\* neighbours, so it is enough that no such exchange changes the analysis).
C25_EventOrderIrrelevant ==
    (Done("analyze_resident_domain") /\ call.out.error = "none") =>
        \A i \in 1..(Len(call.args[3]) - 1) :
            analyze_resident_domain(call.args[1], call.args[2],
                                    Exchanged(call.args[3], i), call.args[4])
                = call.out

(***************************************************************************)
(* The persisted rows.                                                     *)
(***************************************************************************)
\* C26: every persisted row is consistent in itself: crs_total is the sum
\* of its three component scores, crs_level is the level of crs_total (RED
\* from 5, AMBER from 2, GREEN below), actual_entries is at least 1,
\* refusal_count is at most actual_entries, and max_gap_hours is null
\* exactly when actual_entries is 1.
C26_RowConsistent ==
    \A i \in 1..Len(scores) :
        LET r == scores[i]
        IN  /\ r.crs_total = r.crs_refusal_score + r.crs_gap_score
                                 + r.crs_dependency_score
            /\ r.crs_level = (IF r.crs_total >= 5 THEN "RED"
                              ELSE IF r.crs_total >= 2 THEN "AMBER"
                              ELSE "GREEN")
            /\ r.actual_entries >= 1
            /\ r.refusal_count >= 0
            /\ r.refusal_count <= r.actual_entries
            /\ r.max_gap_hours = NoValue <=> r.actual_entries = 1

\* a row of two events, one of them a refusal, thirty-six hours apart, next
\* to a row of a single event
C26_Witness ==
    \E i, j \in 1..Len(scores) :
        /\ scores[i].actual_entries = 2
        /\ scores[i].refusal_count = 1
        /\ scores[i].max_gap_hours = 36
        /\ scores[i].crs_total = 5
        /\ scores[i].crs_level = "RED"
        /\ scores[j].actual_entries = 1
        /\ scores[j].max_gap_hours = NoValue

(***************************************************************************)
(* The two classifiers.                                                    *)
(***************************************************************************)
\* C27: for every description and title, empty and missing ones included,
\* parse_assistance_level returns Refused exactly when is_refusal returns
\* True, and for a text with an away, leave or hospital keyword
\* parse_assistance_level returns Not Specified and is_refusal False.
C27_ClassifiersAgree ==
    /\ Done("parse_assistance_level") =>
           /\ call.out = REFUSED <=> is_refusal(call.args[1], call.args[2])
           /\ 1 \in Matching(call.args[1], call.args[2]) =>
                  call.out = NOT_SPECIFIED
    /\ Done("is_refusal") =>
           /\ call.out <=>
                  parse_assistance_level(call.args[1], call.args[2]) = REFUSED
           /\ 1 \in Matching(call.args[1], call.args[2]) => call.out = FALSE

\* is_refusal on a missing description, which it reads as the text None,
\* and a title that tells of a refusal, or of leave
C27_Witness ==
    /\ Done("is_refusal")
    /\ call.args[1] = None
    /\ call.args[2] \in { Text(Words.refused), Text(Words.on \o Words.sp \o Words.leave) }
    /\ call.out = (call.args[2] = Text(Words.refused))

(***************************************************************************)
(* DateHelper (src/dashboard_queries.py), the read side of the window      *)
(* identifiers.                                                            *)
(***************************************************************************)
\* str(n) of a non-negative integer, digit by digit
RECURSIVE Digits(_)
Digits(n) == IF n < 10 THEN <<n>> ELSE Append(Digits(n \div 10), n % 10)

\* int(s) of a string of digits; int('') raises ValueError
RECURSIVE IntOf(_)
IntOf(s) ==
    IF s = <<>> THEN NoValue
    ELSE IF Len(s) = 1 THEN s[1]
    ELSE IntOf(SubSeq(s, 1, Len(s) - 1)) * 10 + s[Len(s)]

\* s = str(date_id); date(int(s[:4]), int(s[4:6]), int(s[6:])): the date's
\* ordinal, or the ValueError of int('') or of a date out of range
date_id_to_date(date_id) ==
    LET s == Digits(date_id)
        n == Len(s)
        y == IntOf(SubSeq(s, 1, IF n < 4 THEN n ELSE 4))
        m == IntOf(SubSeq(s, 5, IF n < 6 THEN n ELSE 6))
        d == IntOf(SubSeq(s, 7, n))
    IN  IF y = NoValue \/ m = NoValue \/ d = NoValue THEN ValueError
        ELSE IF y < 1 \/ y > 9999 \/ m < 1 \/ m > 12 \/ d < 1
                    \/ d > DaysInMonth(y, m)
            THEN ValueError
        ELSE [error |-> "none",
              ordinal |-> (y - 1) * 365 + (y - 1) \div 4 - (y - 1) \div 100
                              + (y - 1) \div 400
                              + SumSeq([k \in 1..(m - 1) |-> DaysInMonth(y, k)])
                              + d]

\* start_date = end_date - timedelta(days=days-1)
get_date_range(end_date, days) ==
    LET start_date == end_date - (days - 1)
    IN  <<date_to_date_id(start_date), date_to_date_id(end_date)>>

\* 0001-01-01, 0099-05-17, 0999-12-31, 1000-01-01, 2024-02-29, 2026-01-01,
\* 2026-03-01 and 9999-12-31
DateInputs == {1, 35931, 364877, 364878, 738945, 739617, 739676, 3652059}

\* a date to convert there and back, or a window to identify on either side
InitDates ==
    /\ InitMain
    /\ row = DefaultRow
    /\ adl = NoEvent
    /\ \/ \E d \in DateInputs : call = Call("date_to_date_id", <<d>>)
       \/ \E d \in DateInputs \ {1}, p \in 1..MaxWindowDays,
             fn \in {"build_event_window", "get_date_range"} :
               call = Call(fn, <<d, p>>)

DateToDateId == Return("date_to_date_id", date_to_date_id(call.args[1]))

\* the identifier just computed is read back
DateIdToDate ==
    /\ Done("date_to_date_id")
    /\ call' = [fn |-> "date_id_to_date", args |-> <<call.out>>, done |-> TRUE,
                out |-> date_id_to_date(call.out), date |-> call.args[1]]
    /\ UNCHANGED <<events, scores, clock, pc, driver, job, run, pending,
                   result, totals, raised, hist, row, adl>>

GetDateRange ==
    Return("get_date_range", get_date_range(call.args[1], call.args[2]))

NextDates == DateToDateId \/ DateIdToDate \/ GetDateRange \/ BuildEventWindow

SpecDates == InitDates /\ [][NextDates]_vars

\* C28: build_event_window(end_date, period_days) gives the start_date_id
\* and end_date_id that DateHelper.get_date_range(end_date, period_days)
\* gives, date_id_to_date(date_to_date_id(d)) is d for every date d, and
\* date ids are ordered as their dates are.
C28_WindowIdsAgree ==
    /\ Done("build_event_window") =>
           <<call.out.start_date_id, call.out.end_date_id>>
               = get_date_range(call.args[1], call.args[2])
    /\ Done("get_date_range") =>
           LET w == build_event_window(call.args[1], call.args[2])
           IN  call.out = <<w.start_date_id, w.end_date_id>>
    /\ Done("date_to_date_id") =>
           \A e \in DateInputs :
               e < call.args[1] <=> date_to_date_id(e) < call.out
    /\ Done("date_id_to_date") =>
           /\ call.out.error = "none"
           /\ call.out.ordinal = call.date

(***************************************************************************)
(* The documentation level of an analysis.                                 *)
(***************************************************************************)
\* C29: for each of the five configured domains and every period_days > 0
\* analyze_resident_domain returns a documentation score whose level is
\* GREEN, AMBER or RED and whose expected_entries is above 0: the level N/A
\* does not come out of an analysis, so no row with it is written.
C29_NeverNotApplicable ==
    /\ \A n \in DOMAIN ADL_DOMAINS : ADL_DOMAINS[n].expected_per_day_x2 > 0
    /\ (Done("analyze_resident_domain") /\ call.args[2] \in DOMAIN ADL_DOMAINS
            /\ call.args[4] > 0) =>
           /\ call.out.error = "none"
           /\ call.out.documentation_score.risk_level \in {GREEN, AMBER, RED}
           /\ call.out.documentation_score.expected_entries_x2 > 0
    /\ (Done("calculate_documentation_score") /\ call.args[2] > 0
            /\ call.args[3] > 0) =>
           /\ call.out.risk_level \in {GREEN, AMBER, RED}
           /\ call.out.expected_entries_x2 > 0
    /\ \A i \in 1..Len(scores) : scores[i].dcs_level # NOT_APPLICABLE

\* Grooming, the domain of half an entry a day: 3.5 entries expected in a
\* week, and four recorded
C29_Witness ==
    /\ Done("analyze_resident_domain")
    /\ call.args[2] = "Grooming"
    /\ call.args[4] = 7
    /\ Len(call.args[3]) = 4
    /\ call.out.documentation_score.expected_entries_x2 = 7
    /\ call.out.documentation_score.risk_level = GREEN

(***************************************************************************)
(* The import of the dashboard (render_admin_panel in src/dashboard_v2.py):*)
(* import_events, then calculate_period_scores for 7, 14 and 30 days on    *)
(* the same connection, conn.rollback() on an exception.                   *)
(***************************************************************************)
recalc_periods == <<7, 14, 30>>

MaxImported == 3    \* rows of one uploaded file

\* the rows of an uploaded file: Ann's oral care on 2026-03-01 and three
\* days earlier, Bob's oral care eight days earlier, and Bob's events of
\* the unconfigured domain ten and twenty days earlier
UploadRows ==
    << EventRow(2, 2, 739656, 8, SOME_ASSISTANCE, "f", Text(Words.helped)),
       EventRow(2, 2, 739666, 8, SOME_ASSISTANCE, "f", Text(Words.helped)),
       EventRow(2, 1, 739668, 8, SOME_ASSISTANCE, "f", Text(Words.helped)),
       EventRow(1, 1, 739673, 20, REFUSED, "t", Text(Words.refused)),
       EventRow(1, 1, 739676, 8, SOME_ASSISTANCE, "f", Text(Words.helped)) >>

InitImport ==
    /\ InitMain
    /\ row = DefaultRow
    /\ adl = NoEvent
    /\ \E end_date \in SnapshotDates, keep \in SUBSET (1..Len(UploadRows)) :
           /\ Cardinality(keep) <= MaxImported
           /\ call = Call("render_admin_panel",
                          <<SelectSeq(UploadRows,
                                      LAMBDA r : \E i \in keep : UploadRows[i] = r),
                            end_date>>)

\* import_events inserts the rows not yet stored and commits; the loop over
\* recalc_periods is entered
ImportEvents ==
    /\ call.fn = "render_admin_panel"
    /\ pc["A"] = "idle"
    /\ events' = events \o SelectSeq(call.args[1],
                     LAMBDA r : ~\E i \in 1..Len(events) : events[i] = r)
    /\ pc' = [pc EXCEPT !["A"] = "driver"]
    /\ driver' = [driver EXCEPT !["A"] = "import"]
    /\ job' = [job EXCEPT !["A"] =
                  [i \in 1..Len(recalc_periods) |->
                      <<call.args[2], recalc_periods[i]>>]]
    /\ run' = [run EXCEPT !["A"] = NoRun]
    /\ result' = [result EXCEPT !["A"] = NoResult]
    /\ totals' = [totals EXCEPT !["A"] = NoTotals]
    /\ raised' = [raised EXCEPT !["A"] = "none"]
    /\ UNCHANGED <<scores, clock, pending, hist, row, adl, call>>

\* import_events raises: conn.rollback(), no recalculation
ImportFails ==
    /\ call.fn = "render_admin_panel"
    /\ pc["A"] = "idle"
    /\ pc' = [pc EXCEPT !["A"] = "failed"]
    /\ raised' = [raised EXCEPT !["A"] = "ImportError"]
    /\ UNCHANGED <<events, scores, clock, driver, job, run, pending, result,
                   totals, hist, row, adl, call>>

NextImport ==
    \/ ImportEvents
    \/ ImportFails
    \/ BeginRunWithin("A", Len(recalc_periods))
    \/ ProcessPair("A")
    \/ StorageFailure("A")
    \/ Commit("A")
    \/ Finish("A")

SpecImport == InitImport /\ [][NextImport]_vars

\* the recalculation of some period has raised
RecalcFailed ==
    /\ call.fn = "render_admin_panel"
    /\ pc["A"] = "failed"
    /\ run["A"] # NoRun

\* C30: when the recalculation after an import fails for some period, the
\* events imported in the same action stay persisted, the rows of every
\* period recalculated before the failing one stay committed, and no row of
\* the failing period is persisted.
C30_RecalcFailureContained ==
    RecalcFailed =>
        /\ \A i \in 1..Len(call.args[1]) :
               \E j \in 1..Len(events) : events[j] = call.args[1][i]
        /\ \A k \in 1..Len(recalc_periods) :
               LET rn == NewRun(call.args[2], recalc_periods[k], k)
                   o == Outcome(ActiveResidents, DimDomain, rn)
               IN  IF recalc_periods[k] < run["A"].period_days
                       THEN /\ hist[<<call.args[2], recalc_periods[k]>>].commits = 1
                            /\ o.raised = "none"
                            /\ WindowSet(scores, rn) = o.rows
                       ELSE /\ hist[<<call.args[2], recalc_periods[k]>>].commits = 0
                            /\ WindowSet(scores, rn) = {}

\* the 7-day scores are committed with a row, the 14-day run meets the event
\* of the unconfigured domain after its first upsert
C30_Witness ==
    /\ RecalcFailed
    /\ raised["A"] = "ValueError"
    /\ run["A"].period_days = 14
    /\ run["A"].written >= 1
    /\ Len(events) = 3
    /\ Len(scores) >= 1

====
